---------------------------- MODULE Spec2Model ----------------------------
(***************************************************************************)
(* Verification model of the stock-analysis dashboard's indicator,         *)
(* screening, scanning and scoring engine.                                 *)
(*                                                                         *)
(*   src/Screener_page.py      check_* strategies, scan_watchlist          *)
(*   src/utils.py              compute_ma, compute_kd                      *)
(*   src/Single_stock_page.py  calculate_deduction_values                  *)
(*   src/Score_page.py         compute_score_mode_a / compute_score_mode_b *)
(*   src/app.py                compute_score (general model)               *)
(*                                                                         *)
(* Prices and volumes are integers (a price is a number of ticks).  Every  *)
(* derived value the code computes in floating point is computed here as   *)
(* an exact rational <<numerator, denominator>>, denominator > 0.          *)
(* A reading that pandas reports as NaN / None is the record None;         *)
(* a defined reading v is Some(v).                                         *)
(***************************************************************************)
EXTENDS Integers, Sequences, FiniteSets, TLC

VARIABLES
    \* ---- scan_watchlist (src/Screener_page.py:258-305) ----
    symbols,        \* the input list of symbols
    has_cb,         \* [progress, status]: which optional callbacks were passed
    scan_pc,        \* position inside scan_watchlist
    scan_i,         \* loop index i of enumerate(symbols), 0-based
    scan_df,        \* what fetch_stock_candles returned for the symbol in flight
    results,        \* list of matches
    errors,         \* list of error entries
    progressLog,    \* values handed to progress_callback, in order
    statusLog,      \* values handed to status_callback, in order
    fetchLog,       \* indices (1-based) of the symbols fetched, in order
    outcomes,       \* per completed symbol: how its iteration ended
    errorsAt,       \* for each entry of errors, the index of its symbol
    sleeps,         \* number of time.sleep(sleep_sec) calls made
    \* ---- compute_kd (src/utils.py:145-179) ----
    kd_df,          \* the bar series passed in: rows of [high, low, close]
    kd_period,      \* the period argument
    kd_pc,          \* position inside compute_kd
    kd_i,           \* loop index i of range(1, len(df)), 0-based
    rsv,            \* the rsv Series (one rational per row)
    k_vals,         \* the k_vals list (rationals)
    d_vals,         \* the d_vals list (rationals)
    k_val,          \* column k_val of the returned frame, in hundredths
    d_val,          \* column d_val of the returned frame, in hundredths
    \* ---- calculate_deduction_values (src/Single_stock_page.py:41-143) ----
    ded_df,         \* the close column of the series passed in
    display_limit,  \* the display_limit argument
    ded_pc,         \* "start" before the call, "done" after it
    ded_cols,       \* per period: the ma / deduction / bias_pct / trend columns
    summary,        \* the latest-day summary list, or None
    \* ---- the four check_* strategies (src/Screener_page.py:35-251) ----
    scr_df,         \* the frame passed in: [cols: its columns, rows: its bars]
    scr_par,        \* the tunable parameters the strategies are called with
    scr_pc,         \* "start" before the first call, "done" after a call
    scr_op,         \* the last operation: "none", "call" or the parameter tightened
    scr_res,        \* what each strategy returned on the last call
    scr_prev,       \* what each strategy returned on the call before
    \* ---- the scoring models (src/app.py:462-633, src/Score_page.py:41-316) ----
    sc_df,          \* the frame passed in: [has_volume, close, volume]
    sc_pc,          \* "start" before a call, "done" after it
    sc_model,       \* the model called: "general", "A" or "B"
    sc_res,         \* what the model returned: None or a Score Result
    sc_ta,          \* what ta.rsi / ta.stoch / ta.macd returned in that call
    \* ---- a caller passing one frame to the functions of the core ----
    fr_heap,        \* the DataFrame objects alive, by object identity
    fr_before,      \* the caller's frame as it was before the first call
    fr_ta,          \* what pandas_ta computes for the last bar of this series
    fr_pc,          \* "ready", "once" (called once) or "twice"
    fr_fn,          \* the function called and its arguments
    fr_out,         \* the values returned by the calls made, in order
    \* ---- fetch_stock_candles (src/utils.py:50-119) ----
    fc_args,        \* the arguments limit, date_from, date_to
    dt_from,        \* the parsed start date, as a day number
    dt_to,          \* the parsed end date, as a day number
    chunk_end,      \* the last day of the chunk to request next
    all_records,    \* the candles collected so far, by date
    requests,       \* the (chunk_start, chunk_end) ranges requested, in order
    fc_pc,          \* position inside fetch_stock_candles
    fc_out          \* what the function returned

scanVars == <<symbols, has_cb, scan_pc, scan_i, scan_df, results, errors,
              progressLog, statusLog, fetchLog, outcomes, errorsAt, sleeps>>

kdVars == <<kd_df, kd_period, kd_pc, kd_i, rsv, k_vals, d_vals, k_val, d_val>>

dedVars == <<ded_df, display_limit, ded_pc, ded_cols, summary>>

scrVars == <<scr_df, scr_par, scr_pc, scr_op, scr_res, scr_prev>>

scoreVars == <<sc_df, sc_pc, sc_model, sc_res, sc_ta>>

frameVars == <<fr_heap, fr_before, fr_ta, fr_pc, fr_fn, fr_out>>

fetchVars == <<fc_args, dt_from, dt_to, chunk_end, all_records, requests, fc_pc, fc_out>>

vars == <<scanVars, kdVars, dedVars, scrVars, scoreVars, frameVars, fetchVars>>

notScan == <<kdVars, dedVars, scrVars, scoreVars, frameVars, fetchVars>>

notKd == <<scanVars, dedVars, scrVars, scoreVars, frameVars, fetchVars>>

notDed == <<scanVars, kdVars, scrVars, scoreVars, frameVars, fetchVars>>

notScr == <<scanVars, kdVars, dedVars, scoreVars, frameVars, fetchVars>>

notScore == <<scanVars, kdVars, dedVars, scrVars, frameVars, fetchVars>>

notFrame == <<scanVars, kdVars, dedVars, scrVars, scoreVars, fetchVars>>

notFetch == <<scanVars, kdVars, dedVars, scrVars, scoreVars, frameVars>>

(***************************************************************************)
(* Optional readings and exact rational arithmetic                         *)
(***************************************************************************)
None == [ok |-> FALSE, val |-> <<0, 1>>]

Some(v) == [ok |-> TRUE, val |-> v]

Abs(x) == IF x < 0 THEN -x ELSE x

Min2(a, b) == IF a <= b THEN a ELSE b

Max2(a, b) == IF a >= b THEN a ELSE b

RECURSIVE GCD(_, _)
GCD(a, b) == IF b = 0 THEN a ELSE GCD(b, a % b)

\* the rational n/d in lowest terms with a positive denominator (d # 0)
Norm(n, d) ==
    LET s == IF d < 0 THEN -1 ELSE 1
        g == GCD(Abs(n), Abs(d))
    IN  <<(s * n) \div g, (s * d) \div g>>

R(n) == <<n, 1>>

\* a + b over the least common denominator
RAdd(a, b) ==
    LET g == GCD(a[2], b[2])
    IN  Norm(a[1] * (b[2] \div g) + b[1] * (a[2] \div g), (a[2] \div g) * b[2])

RNeg(a) == <<-a[1], a[2]>>

RSub(a, b) == RAdd(a, RNeg(b))

RMul(a, b) == Norm(a[1] * b[1], a[2] * b[2])

\* a / b for b # 0
RDiv(a, b) == Norm(a[1] * b[2], a[2] * b[1])

RLt(a, b) == a[1] * b[2] < b[1] * a[2]

RLe(a, b) == a[1] * b[2] <= b[1] * a[2]

REq(a, b) == a[1] * b[2] = b[1] * a[2]

RAbs(a) == <<Abs(a[1]), a[2]>>

\* round(x, 2): the number of hundredths nearest to x, ties to even
Round2(a) ==
    LET n   == a[1] * 100
        fl  == n \div a[2]
        rem == n - fl * a[2]
    IN  IF 2 * rem < a[2] THEN fl
        ELSE IF 2 * rem > a[2] THEN fl + 1
        ELSE IF fl % 2 = 0 THEN fl ELSE fl + 1

(***************************************************************************)
(* scan_watchlist                                                          *)
(***************************************************************************)
MaxSymbols == 3

SymbolSet == {"2330", "2317"}

TruncLen == 80

\* lengths of str(e) for the exceptions a fetch or a strategy may raise
ExcMsgLens == {TruncLen - 1, TruncLen + 1}

\* the strategy's match records (non-empty dicts)
HitSet == {"hit"}

SymbolLists == UNION {[1..n -> SymbolSet] : n \in 0..MaxSymbols}

CurSymbol == symbols[scan_i + 1]

Total == Len(symbols)

ScanInit ==
    /\ symbols \in SymbolLists
    /\ has_cb \in [progress : BOOLEAN, status : BOOLEAN]
    /\ scan_pc = "loop"
    /\ scan_i = 0
    /\ scan_df = "unset"
    /\ results = <<>>
    /\ errors = <<>>
    /\ progressLog = <<>>
    /\ statusLog = <<>>
    /\ fetchLog = <<>>
    /\ outcomes = <<>>
    /\ errorsAt = <<>>
    /\ sleeps = 0

ScanIdle ==
    /\ symbols = <<>>
    /\ has_cb = [progress |-> FALSE, status |-> FALSE]
    /\ scan_pc = "idle"
    /\ scan_i = 0
    /\ scan_df = "unset"
    /\ results = <<>>
    /\ errors = <<>>
    /\ progressLog = <<>>
    /\ statusLog = <<>>
    /\ fetchLog = <<>>
    /\ outcomes = <<>>
    /\ errorsAt = <<>>
    /\ sleeps = 0

\* line 286: for i, symbol in enumerate(symbols); line 305: return
ScanLoop ==
    /\ scan_pc = "loop"
    /\ scan_pc' = IF scan_i < Total THEN "status" ELSE "done"
    /\ UNCHANGED notScan
    /\ UNCHANGED <<symbols, has_cb, scan_i, scan_df, results, errors,
                   progressLog, statusLog, fetchLog, outcomes, errorsAt, sleeps>>

\* lines 287-288: status_callback(f"[{i + 1}/{total}] {symbol}")
ScanStatus ==
    /\ scan_pc = "status"
    /\ statusLog' = IF has_cb.status
                    THEN Append(statusLog,
                                [pos |-> scan_i + 1, of |-> Total, symbol |-> CurSymbol])
                    ELSE statusLog
    /\ scan_pc' = "progress"
    /\ UNCHANGED notScan
    /\ UNCHANGED <<symbols, has_cb, scan_i, scan_df, results, errors,
                   progressLog, fetchLog, outcomes, errorsAt, sleeps>>

\* lines 289-290: progress_callback((i + 1) / total), the fraction num/den
ScanProgress ==
    /\ scan_pc = "progress"
    /\ progressLog' = IF has_cb.progress
                      THEN Append(progressLog, [num |-> scan_i + 1, den |-> Total])
                      ELSE progressLog
    /\ scan_pc' = "fetch"
    /\ UNCHANGED notScan
    /\ UNCHANGED <<symbols, has_cb, scan_i, scan_df, results, errors,
                   statusLog, fetchLog, outcomes, errorsAt, sleeps>>

\* an append that puts the new entry in front of the list
RecordFirst(list, entry) == <<entry>> \o list

\* lines 295, 299, 301: list.append(entry)
Record(list, entry) == Append(list, entry)

\* an except clause that lets the exception escape scan_watchlist
OnExceptionPropagates(msgLen) ==
    /\ scan_pc' = "aborted"
    /\ UNCHANGED <<errors, errorsAt, outcomes>>

\* an except clause that records str(e) whole
OnExceptionUntruncated(msgLen) ==
    /\ errors' = Append(errors, [symbol |-> CurSymbol, kind |-> "exception",
                                 len |-> msgLen])
    /\ errorsAt' = Append(errorsAt, scan_i + 1)
    /\ outcomes' = Append(outcomes, "raised")
    /\ scan_pc' = "sleep"

\* lines 300-301: except Exception as e: errors.append({.., str(e)[:80]})
OnException(msgLen) ==
    /\ errors' = Record(errors, [symbol |-> CurSymbol, kind |-> "exception",
                                 len |-> Min2(msgLen, TruncLen)])
    /\ errorsAt' = Record(errorsAt, scan_i + 1)
    /\ outcomes' = Append(outcomes, "raised")
    /\ scan_pc' = "sleep"

\* line 293: df = fetch_stock_candles(symbol=symbol, limit=fetch_limit) raises
ScanFetchRaises ==
    /\ scan_pc = "fetch"
    /\ fetchLog' = Append(fetchLog, scan_i + 1)
    /\ \E m \in ExcMsgLens : OnException(m)
    /\ UNCHANGED notScan
    /\ UNCHANGED <<symbols, has_cb, scan_i, scan_df, results,
                   progressLog, statusLog, sleeps>>

\* lines 293-295: the fetch returns an empty frame; the reason recorded,
\* "no_data", stands for the literal of line 295
ScanFetchEmpty ==
    /\ scan_pc = "fetch"
    /\ fetchLog' = Append(fetchLog, scan_i + 1)
    /\ scan_df' = "empty"
    /\ errors' = Record(errors, [symbol |-> CurSymbol, kind |-> "no_data", len |-> 4])
    /\ errorsAt' = Record(errorsAt, scan_i + 1)
    /\ outcomes' = Append(outcomes, "empty")
    /\ scan_pc' = "sleep"
    /\ UNCHANGED notScan
    /\ UNCHANGED <<symbols, has_cb, scan_i, results, progressLog, statusLog, sleeps>>

\* lines 293-296: the fetch returns rows
ScanFetchData ==
    /\ scan_pc = "fetch"
    /\ fetchLog' = Append(fetchLog, scan_i + 1)
    /\ scan_df' = "rows"
    /\ scan_pc' = "strategy"
    /\ UNCHANGED notScan
    /\ UNCHANGED <<symbols, has_cb, scan_i, results, errors, progressLog,
                   statusLog, outcomes, errorsAt, sleeps>>

\* line 297: hit = strategy_fn(df) raises
ScanStrategyRaises ==
    /\ scan_pc = "strategy"
    /\ \E m \in ExcMsgLens : OnException(m)
    /\ UNCHANGED notScan
    /\ UNCHANGED <<symbols, has_cb, scan_i, scan_df, results, fetchLog,
                   progressLog, statusLog, sleeps>>

\* lines 297-299: the strategy returns a match record
ScanStrategyHit ==
    /\ scan_pc = "strategy"
    /\ \E h \in HitSet : results' = Record(results, [symbol |-> CurSymbol, hit |-> h,
                                                      at |-> scan_i + 1])
    /\ outcomes' = Append(outcomes, "hit")
    /\ scan_pc' = "sleep"
    /\ UNCHANGED notScan
    /\ UNCHANGED <<symbols, has_cb, scan_i, scan_df, errors, fetchLog,
                   progressLog, statusLog, errorsAt, sleeps>>

\* lines 297-298: the strategy returns None (or a falsy value)
ScanStrategyNone ==
    /\ scan_pc = "strategy"
    /\ outcomes' = Append(outcomes, "none")
    /\ scan_pc' = "sleep"
    /\ UNCHANGED notScan
    /\ UNCHANGED <<symbols, has_cb, scan_i, scan_df, results, errors, fetchLog,
                   progressLog, statusLog, errorsAt, sleeps>>

\* an iteration end that goes back to the same symbol when its fetch
\* failed or came back empty
ScanSleepRetry ==
    /\ scan_pc = "sleep"
    /\ sleeps' = sleeps + 1
    /\ scan_i' = IF outcomes[Len(outcomes)] \in {"raised", "empty"} /\ sleeps < Total
                 THEN scan_i ELSE scan_i + 1
    /\ scan_df' = "unset"
    /\ scan_pc' = "loop"
    /\ UNCHANGED notScan
    /\ UNCHANGED <<symbols, has_cb, results, errors, progressLog, statusLog,
                   fetchLog, outcomes, errorsAt>>

\* line 303: time.sleep(sleep_sec), then the next iteration
ScanSleep ==
    /\ scan_pc = "sleep"
    /\ sleeps' = sleeps + 1
    /\ scan_i' = scan_i + 1
    /\ scan_df' = "unset"
    /\ scan_pc' = "loop"
    /\ UNCHANGED notScan
    /\ UNCHANGED <<symbols, has_cb, results, errors, progressLog, statusLog,
                   fetchLog, outcomes, errorsAt>>

ScanNext ==
    \/ ScanLoop
    \/ ScanStatus
    \/ ScanProgress
    \/ ScanFetchRaises
    \/ ScanFetchEmpty
    \/ ScanFetchData
    \/ ScanStrategyRaises
    \/ ScanStrategyHit
    \/ ScanStrategyNone
    \/ ScanSleep

(***************************************************************************)
(* compute_kd                                                              *)
(***************************************************************************)
MaxKdLen == 11

KdPeriod == 9

KdSeed == 50

KdPeriods == {3, KdPeriod}

KdBar(h, l, c) == [high |-> h, low |-> l, close |-> c]

\* the bar that fills the older part of a series
KdFillBars == {KdBar(11, 11, 11), KdBar(12, 10, 11), KdBar(12, 10, 12), KdBar(12, 10, 10)}

\* the two most recent bars; the last two have a close outside [low, high]
KdLastBars == {KdBar(12, 10, 12), KdBar(13, 10, 11), KdBar(11, 11, 11),
               KdBar(12, 10, 13), KdBar(12, 11, 9)}

\* a wide first bar, put in front of some series
KdHeadBar == KdBar(13, 10, 12)

KdSeries ==
    {[t \in 1..n |-> IF t = n THEN b2
                     ELSE IF t = n - 1 THEN b1
                     ELSE IF t = 1 /\ wide THEN KdHeadBar
                     ELSE f] :
        n \in 0..MaxKdLen, f \in KdFillBars, b1 \in KdLastBars, b2 \in KdLastBars,
        wide \in BOOLEAN}

RECURSIVE SeqMin(_, _, _, _)
\* min of field-values g[t] for t in lo..hi (lo <= hi)
SeqMin(g, lo, hi, acc) ==
    IF lo > hi THEN acc ELSE SeqMin(g, lo + 1, hi, Min2(acc, g[lo]))

RECURSIVE SeqMax(_, _, _, _)
SeqMax(g, lo, hi, acc) ==
    IF lo > hi THEN acc ELSE SeqMax(g, lo + 1, hi, Max2(acc, g[lo]))

\* df["low"].rolling(period).min() at row t (1-based): NaN until the window is full
LowMin(df, t, period) ==
    IF t < period THEN None
    ELSE Some(R(SeqMin([u \in 1..Len(df) |-> df[u].low], t - period + 1, t, df[t].low)))

\* df["high"].rolling(period).max() at row t
HighMax(df, t, period) ==
    IF t < period THEN None
    ELSE Some(R(SeqMax([u \in 1..Len(df) |-> df[u].high], t - period + 1, t, df[t].high)))

RECURSIVE DenomPad(_, _, _)
\* a replace that pads: a zero range takes the denominator of the row before
DenomPad(df, t, period) ==
    LET lo == LowMin(df, t, period)
        hi == HighMax(df, t, period)
    IN  IF ~lo.ok \/ ~hi.ok THEN None
        ELSE IF REq(hi.val, lo.val) THEN DenomPad(df, t - 1, period)
        ELSE Some(RSub(hi.val, lo.val))

\* (high_max - low_min).replace(0, None): a zero range becomes a missing value
Denom(df, t, period) ==
    LET lo == LowMin(df, t, period)
        hi == HighMax(df, t, period)
    IN  IF ~lo.ok \/ ~hi.ok THEN None
        ELSE IF REq(hi.val, lo.val) THEN None
        ELSE Some(RSub(hi.val, lo.val))

\* .clip(0, 100) of a defined value
Clip(x) == IF RLt(x, R(0)) THEN R(0) ELSE IF RLt(R(100), x) THEN R(100) ELSE x

\* (df["close"] - low_min) / denom * 100, before clip and fillna
RsvRaw(df, t, period) ==
    LET lo == LowMin(df, t, period)
        dn == Denom(df, t, period)
    IN  IF ~lo.ok \/ ~dn.ok THEN None
        ELSE Some(RMul(RDiv(RSub(R(df[t].close), lo.val), dn.val), R(100)))

\* the rsv of a row computed without .clip(0, 100)
RsvUnclipped(df, t, period) ==
    LET raw == RsvRaw(df, t, period)
    IN  IF raw.ok THEN raw.val ELSE R(50)

\* line 168: rsv = (...).clip(0, 100).fillna(50)
Rsv(df, t, period) ==
    LET raw == RsvRaw(df, t, period)
    IN  IF raw.ok THEN Clip(raw.val) ELSE R(50)

\* a seed list of zeros
SeedListZero(n) == [t \in 1..n |-> R(0)]

\* lines 170-171: [50.0] * len(df)
SeedList(n) == [t \in 1..n |-> R(KdSeed)]

KdIdle ==
    /\ kd_df = <<>>
    /\ kd_period = KdPeriod
    /\ kd_pc = "idle"
    /\ kd_i = 0
    /\ rsv = <<>>
    /\ k_vals = <<>>
    /\ d_vals = <<>>
    /\ k_val = <<>>
    /\ d_val = <<>>

KdInit ==
    /\ kd_df \in KdSeries
    /\ kd_period \in KdPeriods
    /\ kd_pc = "start"
    /\ kd_i = 0
    /\ rsv = <<>>
    /\ k_vals = <<>>
    /\ d_vals = <<>>
    /\ k_val = <<>>
    /\ d_val = <<>>

\* lines 163-171: the rsv Series and the two seeded lists
KdStart ==
    /\ kd_pc = "start"
    /\ rsv' = [t \in 1..Len(kd_df) |-> Rsv(kd_df, t, kd_period)]
    /\ k_vals' = SeedList(Len(kd_df))
    /\ d_vals' = SeedList(Len(kd_df))
    /\ kd_i' = 1
    /\ kd_pc' = "loop"
    /\ UNCHANGED notKd
    /\ UNCHANGED <<kd_df, kd_period, k_val, d_val>>

\* an iteration that smooths D from the raw value with the weights exchanged
KdStepFastD ==
    /\ kd_pc = "loop"
    /\ kd_i < Len(kd_df)
    /\ LET t  == kd_i + 1
           kn == RAdd(RMul(<<2, 3>>, k_vals[t - 1]), RMul(<<1, 3>>, rsv[t]))
           dn == RAdd(RMul(<<1, 3>>, d_vals[t - 1]), RMul(<<2, 3>>, rsv[t]))
       IN  /\ k_vals' = [k_vals EXCEPT ![t] = kn]
           /\ d_vals' = [d_vals EXCEPT ![t] = dn]
    /\ kd_i' = kd_i + 1
    /\ UNCHANGED notKd
    /\ UNCHANGED <<kd_df, kd_period, kd_pc, rsv, k_val, d_val>>

\* lines 173-175: one iteration of for i in range(1, len(df)); row i is t = i + 1
KdStep ==
    /\ kd_pc = "loop"
    /\ kd_i < Len(kd_df)
    /\ LET t  == kd_i + 1
           kn == RAdd(RMul(<<2, 3>>, k_vals[t - 1]), RMul(<<1, 3>>, rsv[t]))
           dn == RAdd(RMul(<<2, 3>>, d_vals[t - 1]), RMul(<<1, 3>>, kn))
       IN  /\ k_vals' = [k_vals EXCEPT ![t] = kn]
           /\ d_vals' = [d_vals EXCEPT ![t] = dn]
    /\ kd_i' = kd_i + 1
    /\ UNCHANGED notKd
    /\ UNCHANGED <<kd_df, kd_period, kd_pc, rsv, k_val, d_val>>

\* lines 177-179: the rounded columns, and return
KdFinish ==
    /\ kd_pc = "loop"
    /\ kd_i >= Len(kd_df)
    /\ k_val' = [t \in 1..Len(kd_df) |-> Some(Round2(k_vals[t]))]
    /\ d_val' = [t \in 1..Len(kd_df) |-> Some(Round2(d_vals[t]))]
    /\ kd_pc' = "done"
    /\ UNCHANGED notKd
    /\ UNCHANGED <<kd_df, kd_period, kd_i, rsv, k_vals, d_vals>>

KdNext ==
    \/ KdStart
    \/ KdStep
    \/ KdFinish

(***************************************************************************)
(* calculate_deduction_values                                              *)
(***************************************************************************)
MaxDedLen == 62

\* ALL_CONFIGS (lines 79-84), by ascending period
AllPeriods == <<5, 10, 20, 60>>

MaName(p) == CASE p = 5 -> "5MA" [] p = 10 -> "10MA" [] p = 20 -> "20MA" [] OTHER -> "60MA"

DisplayLimits == {3, 5, 10, 30, 60, 120}

\* closes that step from 1000 to the given level after the fifth row
StepLevel(shape) ==
    CASE shape = "step989"  -> 989
      [] shape = "step990"  -> 990
      [] shape = "step991"  -> 991
      [] shape = "step1009" -> 1009
      [] shape = "step1010" -> 1010
      [] OTHER              -> 1011

DedShapes == {"up", "down", "flat", "saw", "step989", "step990", "step991",
              "step1009", "step1010", "step1011"}

\* the close of row t of a series of the given shape
ShapeClose(shape, t) ==
    CASE shape = "up"   -> 100 + t
      [] shape = "down" -> 300 - 2 * t
      [] shape = "flat" -> 100
      [] shape = "saw"  -> 100 + (t % 3)
      [] OTHER          -> IF t <= 5 THEN 1000 ELSE StepLevel(shape)

DedSeries == {[t \in 1..n |-> ShapeClose(sh, t)] : n \in 0..MaxDedLen, sh \in DedShapes}

RECURSIVE SeqSum(_, _, _)
\* sum of g[t] for t in lo..hi
SeqSum(g, lo, hi) == IF lo > hi THEN 0 ELSE g[lo] + SeqSum(g, lo + 1, hi)

\* a rolling mean that averages the rows there are while the window fills
RollMeanPartial(close, t, p) ==
    IF t < p THEN Some(Norm(SeqSum(close, 1, t), t))
    ELSE Some(Norm(SeqSum(close, t - p + 1, t), p))

\* close.rolling(p).mean() at row t: NaN until the window is full
RollMean(close, t, p) ==
    IF t < p THEN None ELSE Some(Norm(SeqSum(close, t - p + 1, t), p))

\* close.shift(p) at row t: the close p rows earlier, NaN on the first p rows
Shift(close, t, p) == IF t <= p THEN None ELSE Some(R(close[t - p]))

\* a classification that leaves the two boundaries out of the middle band
DeductionTrendStrict(bias) ==
    IF RLt(RAbs(bias), <<1, 100>>) THEN [label |-> "consolidating", color |-> "#FF9800"]
    ELSE IF RLt(<<0, 1>>, bias) THEN [label |-> "bullish", color |-> "#EF5350"]
    ELSE [label |-> "bearish", color |-> "#26A69A"]

\* lines 21-38: _deduction_trend(bias), bias a ratio
DeductionTrend(bias) ==
    IF RLe(RAbs(bias), <<1, 100>>) THEN [label |-> "consolidating", color |-> "#FF9800"]
    ELSE IF RLt(<<1, 100>>, bias) THEN [label |-> "bullish", color |-> "#EF5350"]
    ELSE [label |-> "bearish", color |-> "#26A69A"]

\* a filter that keeps every period the series is long enough for, whatever
\* the display window
MaConfigsAnyLimit(close, limit) ==
    SelectSeq(AllPeriods, LAMBDA p : Len(close) >= p)

\* lines 89-92: the periods kept, in the order of ALL_CONFIGS
MaConfigs(close, limit) ==
    SelectSeq(AllPeriods, LAMBDA p : p <= limit /\ Len(close) >= p)

\* lines 106-110: bias_pct_N at row t, in percent
BiasPct(close, t, p) ==
    LET d == Shift(close, t, p)
    IN  IF ~d.ok THEN None
        ELSE Some(RMul(RDiv(RSub(R(close[t]), d.val), d.val), R(100)))

\* lines 98-115: the four historical columns of one period
HistoryColumns(close, p) ==
    [ma        |-> [t \in 1..Len(close) |-> RollMean(close, t, p)],
     deduction |-> [t \in 1..Len(close) |-> Shift(close, t, p)],
     bias_pct  |-> [t \in 1..Len(close) |-> BiasPct(close, t, p)],
     trend     |-> [t \in 1..Len(close) |->
                      LET b == BiasPct(close, t, p)
                      IN  IF b.ok THEN DeductionTrend(RDiv(b.val, R(100))).label
                          ELSE "-"]]

\* a latest deduction price read one row too early (the close N rows back)
LatestDeductionPriceShifted(close, p) == close[Len(close) - p]

\* a latest deduction price read from the historical column's position: the
\* close N rows back, or the first row when the series has only N rows
LatestDeductionPriceBack(close, p) == close[Max2(1, Len(close) - p)]

\* line 127: float(df["close"].iloc[-period])
LatestDeductionPrice(close, p) == close[Len(close) - p + 1]

\* lines 127-141: the summary row of one period
SummaryRow(close, p) ==
    LET cc    == close[Len(close)]
        dp    == LatestDeductionPrice(close, p)
        bias  == RDiv(RSub(R(cc), R(dp)), R(dp))
        trend == DeductionTrend(bias)
    IN  [period          |-> p,
         ma_name         |-> MaName(p),
         ma_val          |-> Round2(RollMean(close, Len(close), p).val),
         current_close   |-> Round2(R(cc)),
         deduction_price |-> Round2(R(dp)),
         diff_pct        |-> Round2(RMul(bias, R(100))),
         trend           |-> trend.label,
         trend_color     |-> trend.color]

\* lines 119-143: the summary list (rows whose MA is NaN are skipped)
Summary(close, limit) ==
    LET cfg  == MaConfigs(close, limit)
        kept == SelectSeq(cfg, LAMBDA p : RollMean(close, Len(close), p).ok)
    IN  [j \in 1..Len(kept) |-> SummaryRow(close, kept[j])]

NoColumns == [p \in {} |-> 0]

DedIdle ==
    /\ ded_df = <<>>
    /\ display_limit = 0
    /\ ded_pc = "idle"
    /\ ded_cols = NoColumns
    /\ summary = [ok |-> FALSE, rows |-> <<>>]

DedInit ==
    /\ ded_df \in DedSeries
    /\ display_limit \in DisplayLimits
    /\ ded_pc = "start"
    /\ ded_cols = NoColumns
    /\ summary = [ok |-> FALSE, rows |-> <<>>]

\* lines 86-95: the call returns (df, None): empty series or no period kept
DedCallNothing ==
    /\ ded_pc = "start"
    /\ Len(ded_df) = 0 \/ MaConfigs(ded_df, display_limit) = <<>>
    /\ ded_pc' = "done"
    /\ UNCHANGED notDed
    /\ UNCHANGED <<ded_df, display_limit, ded_cols, summary>>

\* lines 97-143: the call returns the columns and the summary
DedCall ==
    /\ ded_pc = "start"
    /\ ~(Len(ded_df) = 0 \/ MaConfigs(ded_df, display_limit) = <<>>)
    /\ LET cfg == MaConfigs(ded_df, display_limit)
           rows == Summary(ded_df, display_limit)
       IN  /\ ded_cols' = [p \in {cfg[j] : j \in DOMAIN cfg} |-> HistoryColumns(ded_df, p)]
           /\ summary' = IF rows = <<>> THEN [ok |-> FALSE, rows |-> <<>>]
                         ELSE [ok |-> TRUE, rows |-> rows]
    /\ ded_pc' = "done"
    /\ UNCHANGED notDed
    /\ UNCHANGED <<ded_df, display_limit>>

DedNext ==
    \/ DedCallNothing
    \/ DedCall

(***************************************************************************)
(* The screener strategies                                                 *)
(***************************************************************************)
MaxScrLen == 22

AllCols == {"open", "high", "low", "close", "volume", "date"}

NoMatch == [kind |-> "none"]

\* an exception escaping the strategy
Raised(e) == [kind |-> "error", exc |-> e]

\* column c of frame df as a sequence
Col(df, c) ==
    [t \in 1..Len(df.rows) |->
        CASE c = "open"   -> df.rows[t].open
          [] c = "high"   -> df.rows[t].high
          [] c = "low"    -> df.rows[t].low
          [] c = "close"  -> df.rows[t].close
          [] c = "volume" -> df.rows[t].volume
          [] OTHER        -> df.rows[t].date]

\* Series.mean() over rows lo..hi (lo <= hi)
Mean(g, lo, hi) == Norm(SeqSum(g, lo, hi), hi - lo + 1)

\* int(x) of a non-negative float
IntOf(a) == a[1] \div a[2]

\* ---- strategy 1: consolidation breakout (lines 35-86) ----
ConsRequiredCols == {"open", "high", "low", "close", "volume", "date"}

ConsUsedCols == {"high", "low", "close", "volume", "date"}

\* a length test that lets a series of exactly consolidation_days rows through
ConsMinRowsShort(days) == days

\* line 46: len(df) < consolidation_days + 1
ConsMinRows(days) == days + 1

\* line 59 with the comparison made strict: amplitude > amplitude_threshold
TooWideStrict(amplitude, threshold) == RLt(threshold, amplitude)

\* line 59: amplitude >= amplitude_threshold
TooWide(amplitude, threshold) == RLe(threshold, amplitude)

\* line 68 with the comparison made strict: today_close < box_high
NoBreakoutStrict(close, boxHigh) == close < boxHigh

\* line 68: today_close <= box_high
NoBreakout(close, boxHigh) == close <= boxHigh

\* line 71 made to reject a close level with box_high as well
AlreadyBrokenOutAtTop(close, boxHigh) == close >= boxHigh

\* line 71: yesterday_close > box_high
AlreadyBrokenOut(close, boxHigh) == close > boxHigh

\* a volume test with the comparison turned round
VolumeTooHigh(volume, avg, ratio) == RLt(RMul(avg, ratio), R(volume))

\* lines 74 and 173: today_volume < avg_5d_volume * volume_ratio
VolumeTooLow(volume, avg, ratio) == RLt(R(volume), RMul(avg, ratio))

\* lines 49-86, reached with the required columns and enough rows
ConsolidationBody(df, days, threshold, ratio, checkVolume) ==
    LET n         == Len(df.rows)
        first     == n - days + 1              \* recent = df.tail(days)
        boxLast   == n - 1                     \* box = recent.iloc[:-1]
        today     == df.rows[n]
        yesterday == df.rows[n - 1]
        box_high  == SeqMax(Col(df, "high"), first, boxLast, df.rows[first].high)
        box_low   == SeqMin(Col(df, "low"), first, boxLast, df.rows[first].low)
        amplitude == RDiv(R(box_high - box_low), R(box_low))
        volFirst  == Max2(first, boxLast - 4)  \* box.tail(5)
        avg_5d    == Mean(Col(df, "volume"), volFirst, boxLast)
    IN  IF ~(ConsUsedCols \subseteq df.cols) THEN Raised("KeyError")
        ELSE IF days < 2 THEN Raised("IndexError")
        ELSE IF box_low = 0 THEN Raised("ZeroDivisionError")
        ELSE IF TooWide(amplitude, threshold) THEN NoMatch
        ELSE IF NoBreakout(today.close, box_high) THEN NoMatch
        ELSE IF AlreadyBrokenOut(yesterday.close, box_high) THEN NoMatch
        ELSE IF checkVolume /\ VolumeTooLow(today.volume, avg_5d, ratio) THEN NoMatch
        ELSE [kind          |-> "match",
              date          |-> today.date,
              close         |-> Round2(R(today.close)),
              box_high      |-> Round2(R(box_high)),
              box_low       |-> Round2(R(box_low)),
              amplitude_pct |-> Round2(RMul(amplitude, R(100))),
              volume        |-> today.volume,
              avg_5d_volume |-> IntOf(avg_5d),
              volume_ratio  |-> IF RLt(R(0), avg_5d)
                                THEN Some(Round2(RDiv(R(today.volume), avg_5d)))
                                ELSE None]

\* lines 35-86: check_consolidation_breakout
CheckConsolidationBreakout(df, days, threshold, ratio, checkVolume) ==
    IF ~(ConsRequiredCols \subseteq df.cols) THEN NoMatch
    ELSE IF Len(df.rows) < ConsMinRows(days) THEN NoMatch
    ELSE ConsolidationBody(df, days, threshold, ratio, checkVolume)

\* ---- strategy 2: bullish moving-average alignment (lines 96-138) ----
MaRequiredCols == {"close", "volume", "date"}

\* lines 104-138, reached with the required columns and at least 21 rows
MaAlignmentBody(df) ==
    LET n      == Len(df.rows)
        close  == Col(df, "close")
        ma5    == RollMean(close, n, 5)
        ma10   == RollMean(close, n, 10)
        ma20   == RollMean(close, n, 20)
        prev20 == RollMean(close, n - 1, 20)
        c      == R(df.rows[n].close)
    IN  IF ~(MaRequiredCols \subseteq df.cols) THEN Raised("KeyError")
        ELSE IF n < 2 THEN Raised("IndexError")
        ELSE IF ~ma5.ok \/ ~ma10.ok \/ ~ma20.ok THEN NoMatch
        ELSE IF ~(RLt(ma10.val, ma5.val) /\ RLt(ma20.val, ma10.val)) THEN NoMatch
        ELSE IF RLe(c, ma5.val) THEN NoMatch
        ELSE IF prev20.ok /\ RLe(ma20.val, prev20.val) THEN NoMatch
        ELSE [kind           |-> "match",
              date           |-> df.rows[n].date,
              close          |-> Round2(c),
              ma5            |-> Round2(ma5.val),
              ma10           |-> Round2(ma10.val),
              ma20           |-> Round2(ma20.val),
              close_vs_ma5   |-> Round2(RMul(RDiv(RSub(c, ma5.val), ma5.val), R(100))),
              volume         |-> df.rows[n].volume]

\* lines 96-138: check_bullish_ma_alignment
CheckBullishMaAlignment(df) ==
    IF ~(MaRequiredCols \subseteq df.cols) THEN NoMatch
    ELSE IF Len(df.rows) < 21 THEN NoMatch
    ELSE MaAlignmentBody(df)

\* ---- strategy 3: volume-surge bullish candle (lines 149-192) ----
SurgeRequiredCols == {"open", "high", "low", "close", "volume", "date"}

SurgeUsedCols == {"open", "close", "volume", "date"}

\* a body measured against the close instead of the open
BodyRatioOfClose(close, open) == IF close > 0 THEN RDiv(R(close - open), R(close)) ELSE R(0)

\* line 177: (today_close - today_open) / today_open if today_open > 0 else 0
BodyRatio(close, open) == IF open > 0 THEN RDiv(R(close - open), R(open)) ELSE R(0)

\* lines 161-192, reached with the required columns and at least 6 rows
VolumeSurgeBody(df, ratio, bodyPct) ==
    LET n      == Len(df.rows)
        today  == df.rows[n]
        avg_5d == Mean(Col(df, "volume"), n - 5, n - 1)     \* df.iloc[-6:-1]
        body   == BodyRatio(today.close, today.open)
        top    == SeqMax(Col(df, "close"), n - 4, n, today.close)   \* df.tail(5)
    IN  IF ~(SurgeUsedCols \subseteq df.cols) THEN Raised("KeyError")
        ELSE IF RLe(avg_5d, R(0)) THEN NoMatch
        ELSE IF VolumeTooLow(today.volume, avg_5d, ratio) THEN NoMatch
        ELSE IF RLe(body, bodyPct) THEN NoMatch
        ELSE IF today.close < top THEN NoMatch
        ELSE [kind          |-> "match",
              date          |-> today.date,
              close         |-> Round2(R(today.close)),
              body_pct      |-> Round2(RMul(body, R(100))),
              volume        |-> today.volume,
              avg_5d_volume |-> IntOf(avg_5d),
              volume_ratio  |-> Round2(RDiv(R(today.volume), avg_5d))]

\* lines 149-192: check_volume_surge_bullish
CheckVolumeSurgeBullish(df, ratio, bodyPct) ==
    IF ~(SurgeRequiredCols \subseteq df.cols) THEN NoMatch
    ELSE IF Len(df.rows) < 6 THEN NoMatch
    ELSE VolumeSurgeBody(df, ratio, bodyPct)

\* ---- strategy 4: oversold reversal (lines 204-251) ----
OversoldRequiredCols == {"open", "high", "low", "close", "volume", "date"}

OversoldUsedCols == {"open", "low", "close", "volume", "date"}

\* lines 216-251, reached with the required columns and at least 21 rows
OversoldBody(df, biasThreshold, shadowRatio) ==
    LET n     == Len(df.rows)
        today == df.rows[n]
        ma20  == RollMean(Col(df, "close"), n, 20)
        bias  == RDiv(RSub(R(today.close), ma20.val), ma20.val)
        body  == today.close - today.open
        lower_shadow == Min2(today.close, today.open) - today.low
    IN  IF ~(OversoldUsedCols \subseteq df.cols) THEN Raised("KeyError")
        ELSE IF ~ma20.ok THEN NoMatch
        ELSE IF ma20.val[1] = 0 THEN Raised("ZeroDivisionError")
        ELSE IF RLe(biasThreshold, bias) THEN NoMatch
        ELSE IF today.close <= today.open THEN NoMatch
        ELSE IF body <= 0 \/ RLt(R(lower_shadow), RMul(R(body), shadowRatio)) THEN NoMatch
        ELSE [kind         |-> "match",
              date         |-> today.date,
              close        |-> Round2(R(today.close)),
              ma20         |-> Round2(ma20.val),
              bias_pct     |-> Round2(RMul(bias, R(100))),
              shadow_ratio |-> Round2(RDiv(R(lower_shadow), R(body))),
              volume       |-> today.volume]

\* lines 204-251: check_oversold_reversal
CheckOversoldReversal(df, biasThreshold, shadowRatio) ==
    IF ~(OversoldRequiredCols \subseteq df.cols) THEN NoMatch
    ELSE IF Len(df.rows) < 21 THEN NoMatch
    ELSE OversoldBody(df, biasThreshold, shadowRatio)

\* ---- the inputs ----
Bar(o, h, l, c, v) == [open |-> o, high |-> h, low |-> l, close |-> c, volume |-> v]

\* the bar repeated over the older part of a series
ScrFillBars == {Bar(100, 105, 100, 102, 1000),    \* a 5% box
                Bar(100, 110, 100, 105, 1000),    \* a box of exactly 10%
                Bar(130, 132, 128, 130, 1000),    \* a higher price level
                Bar(100, 105, 100, 102, 0)}       \* days without a trade

\* yesterday's bar; the last one closes above its own high
ScrYesterdayBars == {Bar(100, 105, 100, 102, 1000),
                     Bar(101, 104, 100, 104, 0),
                     Bar(100, 105, 100, 107, 1000)}

\* today's bar
ScrTodayBars == {Bar(103, 112, 102, 110, 2000),
                 Bar(100, 105, 100, 105, 1500),
                 Bar(103, 115, 102, 112, 3000),
                 Bar(95, 101, 90, 100, 1200),
                 Bar(110, 112, 100, 105, 500),
                 Bar(100, 106, 100, 105, 2000),   \* closes level with a 105 close
                 Bar(0, 112, 102, 110, 2000),     \* an open reported as 0
                 Bar(104, 108, 103, 107, 2000),   \* a breakout of under 3%
                 Bar(104, 108, 103, 107, 1200)}   \* the same on less volume

\* the bar of the trading day after the last row
ScrNextBars == {Bar(108, 112, 107, 111, 3000),    \* closes higher again
                Bar(107, 108, 104, 105, 1000)}    \* falls back

\* a series of n rows, dated 1..n
ScrRows(n, f, y, t) ==
    [k \in 1..n |->
        LET b == IF k = n THEN t ELSE IF k = n - 1 THEN y ELSE f
        IN  [open |-> b.open, high |-> b.high, low |-> b.low, close |-> b.close,
             volume |-> b.volume, date |-> k]]

\* frames with all six columns, and frames lacking one column
ScrFrames ==
    {[cols |-> AllCols, rows |-> ScrRows(n, f, y, t)] :
        n \in 0..MaxScrLen, f \in ScrFillBars, y \in ScrYesterdayBars, t \in ScrTodayBars}
    \cup
    {[cols |-> AllCols \ {c},
      rows |-> ScrRows(n, Bar(100, 105, 100, 102, 1000), Bar(100, 105, 100, 102, 1000),
                       Bar(103, 115, 102, 112, 3000))] :
        n \in 0..MaxScrLen, c \in AllCols}

ConsDays == {2, 7, 21}

\* the defaults of lines 37-40, 151-152 and 206-207
DefaultParams ==
    [consolidation_days  |-> 21,
     amplitude_threshold |-> <<10, 100>>,
     volume_ratio        |-> <<3, 2>>,
     check_volume        |-> TRUE,
     surge_volume_ratio  |-> <<2, 1>>,
     body_pct            |-> <<3, 100>>,
     bias_threshold      |-> <<-10, 100>>,
     shadow_ratio        |-> <<30, 100>>]

\* stricter values of each threshold parameter
Stricter ==
    [amplitude_threshold |-> {<<5, 100>>, <<1, 100>>},
     volume_ratio        |-> {<<2, 1>>, <<5, 1>>},
     surge_volume_ratio  |-> {<<3, 1>>, <<5, 1>>},
     body_pct            |-> {<<5, 100>>, <<10, 100>>},
     bias_threshold      |-> {<<-20, 100>>, <<-30, 100>>},
     shadow_ratio        |-> {<<1, 1>>, <<3, 2>>}]

\* the four strategies called on df with parameters par
Screen(df, par) ==
    [breakout |-> CheckConsolidationBreakout(df, par.consolidation_days,
                      par.amplitude_threshold, par.volume_ratio, par.check_volume),
     alignment |-> CheckBullishMaAlignment(df),
     surge    |-> CheckVolumeSurgeBullish(df, par.surge_volume_ratio, par.body_pct),
     oversold |-> CheckOversoldReversal(df, par.bias_threshold, par.shadow_ratio)]

Strategies == {"breakout", "alignment", "surge", "oversold"}

Uncalled == [s \in Strategies |-> [kind |-> "uncalled"]]

ScrIdle ==
    /\ scr_df = [cols |-> AllCols, rows |-> <<>>]
    /\ scr_par = DefaultParams
    /\ scr_pc = "idle"
    /\ scr_op = "none"
    /\ scr_res = Uncalled
    /\ scr_prev = Uncalled

ScrInit ==
    /\ scr_df \in ScrFrames
    /\ \E d \in ConsDays, chk \in BOOLEAN :
          scr_par = [DefaultParams EXCEPT !.consolidation_days = d, !.check_volume = chk]
    /\ scr_pc = "start"
    /\ scr_op = "none"
    /\ scr_res = Uncalled
    /\ scr_prev = Uncalled

\* the strategies are called on the frame with the current parameters
ScreenCall ==
    /\ scr_pc = "start"
    /\ scr_res' = Screen(scr_df, scr_par)
    /\ scr_prev' = scr_res
    /\ scr_op' = "call"
    /\ scr_pc' = "done"
    /\ UNCHANGED notScr
    /\ UNCHANGED <<scr_df, scr_par>>

\* the strategies are called again on the same frame with one threshold
\* parameter made stricter and every other parameter as before
ScreenTightened ==
    /\ scr_pc = "done"
    /\ scr_op = "call"
    /\ \E name \in DOMAIN Stricter :
          \E v \in Stricter[name] :
            /\ scr_par' = [scr_par EXCEPT ![name] = v]
            /\ scr_op' = name
    /\ scr_res' = Screen(scr_df, scr_par')
    /\ scr_prev' = scr_res
    /\ UNCHANGED notScr
    /\ UNCHANGED <<scr_df, scr_pc>>

\* the next trading day: the frame gains one bar and the strategies are
\* called on it with the parameters of the call before
ScreenNextBar ==
    /\ scr_pc = "done"
    /\ scr_op = "call"
    /\ \E b \in ScrNextBars :
          scr_df' = [scr_df EXCEPT !.rows =
                        Append(@, [open |-> b.open, high |-> b.high, low |-> b.low,
                                   close |-> b.close, volume |-> b.volume,
                                   date |-> Len(@) + 1])]
    /\ scr_res' = Screen(scr_df', scr_par)
    /\ scr_prev' = scr_res
    /\ scr_op' = "next_bar"
    /\ UNCHANGED notScr
    /\ UNCHANGED <<scr_par, scr_pc>>

\* the strategies are called again on the same frame with a larger
\* consolidation_days and every other parameter as before
ScreenLengthened ==
    /\ scr_pc = "done"
    /\ scr_op = "call"
    /\ \E d \in ConsDays :
          /\ d > scr_par.consolidation_days
          /\ scr_par' = [scr_par EXCEPT !.consolidation_days = d]
    /\ scr_res' = Screen(scr_df, scr_par')
    /\ scr_prev' = scr_res
    /\ scr_op' = "lengthened"
    /\ UNCHANGED notScr
    /\ UNCHANGED <<scr_df, scr_pc>>

ScrNext ==
    \/ ScreenCall
    \/ ScreenTightened
    \/ ScreenNextBar
    \/ ScreenLengthened

(***************************************************************************)
(* The scoring models                                                      *)
(*   compute_score          src/app.py:462-633         (general model)     *)
(*   compute_score_mode_a   src/Score_page.py:41-179   (Mode A)            *)
(*   compute_score_mode_b   src/Score_page.py:186-316  (Mode B)            *)
(*                                                                         *)
(* ta.rsi, ta.stoch and ta.macd belong to the pandas_ta library, not to    *)
(* the repository: what they return for the last bar is an input of each   *)
(* call, drawn from RsiReadings, StochReadings and MacdReadings; a NaN     *)
(* reading, or a call that returned nothing, is None.                      *)
(***************************************************************************)
\* the largest number of bars of a scored series
MaxScoreLen == 241

\* lines 482 / 51 / 198: the least number of bars a model scores
MinBars == 65

\* line 204: the least number of bars for which Mode B computes ma240
Ma240Bars == 240

ScoreLens == {0, 1, MinBars - 1, MinBars, MinBars + 1,
              Ma240Bars - 1, Ma240Bars, MaxScoreLen}

ScoreShapes == {"up", "down", "flat", "crash", "dip", "recover", "pullback", "edge"}

\* the close of bar t (1-based) of an n-bar series of the given shape;
\* every close is a positive price
ScoreClose(shape, n, t) ==
    CASE shape = "up"       -> 100 + t
      [] shape = "down"     -> 400 - t
      [] shape = "flat"     -> 100
      [] shape = "crash"    -> IF t > n - 3 THEN 150 ELSE 200
      [] shape = "dip"      -> IF t = n THEN 190 ELSE 200
      [] shape = "recover"  -> IF t = n THEN 110 ELSE IF t > n - 70 THEN 100 ELSE 300
      [] shape = "edge"     -> IF t = n THEN 177 ELSE 197
      [] OTHER              -> IF t <= n - 5 THEN 100 + t
                               ELSE 100 + (n - 5) - 2 * (t - (n - 5))

\* the volume of bar t of an n-bar series: base on every bar but the last
ScoreVolume(base, last, n, t) == IF t = n THEN last ELSE base

\* <<volume of the earlier bars, volume of the last bar>>
ScoreVolumes == {<<1000, 500>>, <<1000, 1000>>, <<1000, 1200>>,
                 <<1000, 1500>>, <<1000, 2000>>, <<0, 1000>>}

\* the frames df the models are called with
ScoreFrames ==
    {[has_volume |-> TRUE,
      close  |-> [t \in 1..n |-> ScoreClose(sh, n, t)],
      volume |-> [t \in 1..n |-> ScoreVolume(v[1], v[2], n, t)]] :
        n \in ScoreLens, sh \in ScoreShapes, v \in ScoreVolumes}
    \cup
    {[has_volume |-> FALSE,
      close  |-> [t \in 1..n |-> ScoreClose(sh, n, t)],
      volume |-> <<>>] : n \in ScoreLens, sh \in ScoreShapes}

\* ta.rsi(close, length=14) on the last bar
RsiReadings == {None} \cup {Some(R(v)) : v \in {25, 30, 35, 40, 45, 50, 60, 70, 75, 80, 85}}

\* ta.stoch(high, low, close, k=9, d=3, smooth_k=3) on the last bar
StochReadings ==
    {[k |-> None, d |-> None], [k |-> Some(R(10)), d |-> None]}
    \cup {[k |-> Some(R(p[1])), d |-> Some(R(p[2]))] :
            p \in {<<15, 10>>, <<10, 15>>, <<15, 15>>, <<25, 35>>,
                   <<35, 25>>, <<20, 20>>, <<30, 30>>, <<80, 70>>}}

\* ta.macd(close, fast=12, slow=26, signal=9) on the last bar: the
\* histogram is DIF - DEA where both are defined
MacdReadings ==
    {[dif |-> None, dea |-> None, hist |-> None],
     [dif |-> Some(R(1)), dea |-> None, hist |-> None]}
    \cup {[dif |-> Some(R(p[1])), dea |-> Some(R(p[2])),
           hist |-> Some(RSub(R(p[1]), R(p[2])))] :
            p \in {<<2, 1>>, <<1, 2>>, <<1, 1>>, <<0 - 1, 0 - 2>>}}

\* return None
NoScore == [kind |-> "none"]

NotScored == [kind |-> "uncalled"]

\* one row of details: the points of one indicator and their maximum
\* the "judgement" text is kept as its kind: "insufficient" is the text of
\* the branches taken when a reading is not available
Detail(item, st, pts, max) == [item |-> item, st |-> st, pts |-> pts, max |-> max]

\* the judgement of a criterion that tests its readings first
Judged(available) == IF available THEN "rated" ELSE "insufficient"

\* the judgement of a moving-average row: lines 600-606 / 151-157
MaJudged(pts) == IF pts > 0 THEN "bull" ELSE "bear"

\* lines 584 / 134: volume is not None and vol_5avg is not None and vol_5avg > 0
VolumeRated(volume, vol_5avg) == volume.ok /\ vol_5avg.ok /\ RLt(R(0), vol_5avg.val)

\* a stochastic reading of a call that does not ask for one
NoStoch == [k |-> None, d |-> None]

\* a MACD reading of a call that does not ask for one
NoMacd == [dif |-> None, dea |-> None, hist |-> None]

NoReadings == [rsi |-> None, stoch |-> NoStoch, macd |-> NoMacd]

Dim(score, max) == [score |-> score, max |-> max]

\* df.empty
Empty(df) == Len(df.close) = 0

\* a gate that lets a series of MinBars - 1 bars through
TooFewBarsLoose(df) == Empty(df) \/ Len(df.close) < MinBars - 1

\* lines 482 / 51 / 198: df.empty or len(df) < 65
TooFewBars(df) == Empty(df) \/ Len(df.close) < MinBars

\* _f("close") on the last row
LastClose(df) == Some(R(df.close[Len(df.close)]))

\* _f("maN") on the last row
LastMa(df, p) == RollMean(df.close, Len(df.close), p)

\* _f("volume") if "volume" in df.columns else None
LastVolume(df) ==
    IF df.has_volume THEN Some(R(df.volume[Len(df.volume)])) ELSE None

\* float(df["volume"].iloc[-6:-1].mean()) if "volume" in df.columns and len(df) >= 6
Vol5Avg(df) ==
    LET n == Len(df.close)
    IN  IF df.has_volume /\ n >= 6 THEN Some(Mean(df.volume, n - 5, n - 1)) ELSE None

\* _above(price, ma)
Above(price, ma) == price.ok /\ ma.ok /\ RLt(ma.val, price.val)

\* 10 if _above(close, ma) else 0
AbovePts(price, ma) == IF Above(price, ma) THEN 10 ELSE 0

\* ---- general model: src/app.py ----
\* a banding of RSI that gives the healthy band more than the 15 of its row
GeneralRsiPtsOver(rsi) ==
    IF ~rsi.ok THEN 0
    ELSE IF RLe(R(40), rsi.val) /\ RLe(rsi.val, R(70)) THEN 20
    ELSE IF RLt(rsi.val, R(30)) THEN 15
    ELSE IF RLt(R(80), rsi.val) THEN 0
    ELSE 5

\* lines 551-561
GeneralRsiPts(rsi) ==
    IF ~rsi.ok THEN 0
    ELSE IF RLe(R(40), rsi.val) /\ RLe(rsi.val, R(70)) THEN 15
    ELSE IF RLt(rsi.val, R(30)) THEN 15
    ELSE IF RLt(R(80), rsi.val) THEN 0
    ELSE 5

\* lines 563-566
GeneralKdPts(k, d) == IF k.ok /\ d.ok THEN (IF RLt(d.val, k.val) THEN 15 ELSE 0) ELSE 0

\* lines 571-574
GeneralHistPts(hist) == IF hist.ok THEN (IF RLt(R(0), hist.val) THEN 10 ELSE 0) ELSE 0

\* lines 576-579
GeneralCrossPts(dif, dea) ==
    IF dif.ok /\ dea.ok THEN (IF RLt(dea.val, dif.val) THEN 10 ELSE 0) ELSE 0

\* a volume criterion that also rewards a volume equal to the average
GeneralVolPtsAtLeast(volume, vol_5avg) ==
    IF VolumeRated(volume, vol_5avg)
    THEN (IF RLe(vol_5avg.val, volume.val) THEN 20 ELSE 0)
    ELSE 0

\* lines 584-587
GeneralVolPts(volume, vol_5avg) ==
    IF VolumeRated(volume, vol_5avg)
    THEN (IF RLt(vol_5avg.val, volume.val) THEN 20 ELSE 0)
    ELSE 0

\* compute_score(df), the library returning rsi, stoch and macd
ComputeScore(df, rsi, stoch, macd) ==
    IF TooFewBars(df) THEN NoScore
    ELSE
      LET close     == LastClose(df)
          t10       == AbovePts(close, LastMa(df, 10))
          t20       == AbovePts(close, LastMa(df, 20))
          t60       == AbovePts(close, LastMa(df, 60))
          trend_score == t10 + t20 + t60
          rsi_pts   == GeneralRsiPts(rsi)
          kd_pts    == GeneralKdPts(stoch.k, stoch.d)
          momentum_score == rsi_pts + kd_pts
          hist_pts  == GeneralHistPts(macd.hist)
          cross_pts == GeneralCrossPts(macd.dif, macd.dea)
          oscillator_score == hist_pts + cross_pts
          vol_pts   == GeneralVolPts(LastVolume(df), Vol5Avg(df))
          volume_score == vol_pts
          total_score == trend_score + momentum_score + oscillator_score + volume_score
      IN  [kind  |-> "score",
           total |-> total_score,
           dimensions |->
              [trend      |-> Dim(trend_score, 30),
               momentum   |-> Dim(momentum_score, 30),
               oscillator |-> Dim(oscillator_score, 20),
               volume     |-> Dim(volume_score, 20)],
           details |->
              <<Detail("10MA", MaJudged(t10), t10, 10),
                Detail("20MA", MaJudged(t20), t20, 10),
                Detail("60MA", MaJudged(t60), t60, 10),
                Detail("RSI", Judged(rsi.ok), rsi_pts, 15),
                Detail("KD", Judged(stoch.k.ok /\ stoch.d.ok), kd_pts, 15),
                Detail("MACD hist", Judged(macd.hist.ok), hist_pts, 10),
                Detail("MACD DIF/DEA", Judged(macd.dif.ok /\ macd.dea.ok), cross_pts, 10),
                Detail("volume", Judged(VolumeRated(LastVolume(df), Vol5Avg(df))),
                       vol_pts, 20)>>]

\* ---- Mode A: src/Score_page.py ----
\* _has_deduction_pressure(df, period)
HasDeductionPressure(df, period) ==
    LET n == Len(df.close)
    IN  IF n < period + 1 THEN FALSE
        ELSE df.close[n - period + 1] > df.close[n]

\* sum([...]) over periods 10, 20, 60
PressureCount(df) == Cardinality({p \in {10, 20, 60} : HasDeductionPressure(df, p)})

\* lines 103-108
DedPts(pressure_count) ==
    IF pressure_count = 0 THEN 10 ELSE IF pressure_count = 1 THEN 5 ELSE 0

\* lines 113-123
ModeARsiPts(rsi) ==
    IF ~rsi.ok THEN 0
    ELSE IF RLe(R(50), rsi.val) /\ RLe(rsi.val, R(70)) THEN 15
    ELSE IF RLt(R(70), rsi.val) THEN 10
    ELSE IF RLe(R(40), rsi.val) /\ RLt(rsi.val, R(50)) THEN 5
    ELSE 0

\* lines 125-129
ModeAHistPts(hist) == IF hist.ok THEN (IF RLt(R(0), hist.val) THEN 15 ELSE 0) ELSE 0

\* a volume rating whose second band leaves out a ratio of exactly 1.0
ModeAVolPtsStrict(volume, vol_5avg) ==
    IF VolumeRated(volume, vol_5avg)
    THEN LET ratio == RDiv(volume.val, vol_5avg.val)
         IN  IF RLe(<<3, 2>>, ratio) THEN 30
             ELSE IF RLt(R(1), ratio) THEN 20
             ELSE 0
    ELSE 0

\* lines 134-143: ratio = volume / vol_5avg against 1.5 and 1.0
ModeAVolPts(volume, vol_5avg) ==
    IF VolumeRated(volume, vol_5avg)
    THEN LET ratio == RDiv(volume.val, vol_5avg.val)
         IN  IF RLe(<<3, 2>>, ratio) THEN 30
             ELSE IF RLe(R(1), ratio) THEN 20
             ELSE 0
    ELSE 0

\* compute_score_mode_a(df), the library returning rsi and macd
ComputeScoreModeA(df, rsi, macd) ==
    IF TooFewBars(df) THEN NoScore
    ELSE
      LET close     == LastClose(df)
          t10       == AbovePts(close, LastMa(df, 10))
          t20       == AbovePts(close, LastMa(df, 20))
          t60       == AbovePts(close, LastMa(df, 60))
          ded_pts   == DedPts(PressureCount(df))
          trend_score == t10 + t20 + t60 + ded_pts
          rsi_pts   == ModeARsiPts(rsi)
          hist_pts  == ModeAHistPts(macd.hist)
          momentum_score == rsi_pts + hist_pts
          vol_pts   == ModeAVolPts(LastVolume(df), Vol5Avg(df))
          volume_score == vol_pts
          total_score == trend_score + momentum_score + volume_score
      IN  [kind  |-> "score",
           total |-> total_score,
           dimensions |->
              [trend    |-> Dim(trend_score, 40),
               momentum |-> Dim(momentum_score, 30),
               volume   |-> Dim(volume_score, 30)],
           details |->
              <<Detail("10MA", MaJudged(t10), t10, 10),
                Detail("20MA", MaJudged(t20), t20, 10),
                Detail("60MA", MaJudged(t60), t60, 10),
                Detail("deduction", "rated", ded_pts, 10),
                Detail("RSI", Judged(rsi.ok), rsi_pts, 15),
                Detail("MACD hist", Judged(macd.hist.ok), hist_pts, 15),
                Detail("volume", Judged(VolumeRated(LastVolume(df), Vol5Avg(df))),
                       vol_pts, 30)>>]

\* ---- Mode B: src/Score_page.py ----
\* a year line averaged over the bars there are when there are fewer than 240
LastMa240Short(df) == RollMeanPartial(df.close, Len(df.close), 240)

\* lines 204-206, 230: ma240 only when len(df) >= 240
LastMa240(df) == IF Len(df.close) >= Ma240Bars THEN LastMa(df, 240) ELSE None

\* the price-level ladder with the year line tested before the quarter line
PricePtsYearFirst(close, ma60, ma240) ==
    IF close.ok /\ ma60.ok
    THEN IF ma240.ok /\ RLt(close.val, ma240.val) THEN 20
         ELSE IF RLt(close.val, ma60.val) THEN 40
         ELSE 10
    ELSE 0

\* lines 236-249
PricePts(close, ma60, ma240) ==
    IF close.ok /\ ma60.ok
    THEN IF RLt(close.val, ma60.val) THEN 40
         ELSE IF ma240.ok /\ RLt(close.val, ma240.val) THEN 20
         ELSE 10
    ELSE 0

\* lines 254-259
ModeBRsiPts(rsi) == IF rsi.ok THEN (IF RLt(rsi.val, R(30)) THEN 20 ELSE 0) ELSE 0

\* line 262: (close - ma60) / ma60 * 100
Bias(close, ma60) == RMul(RDiv(RSub(close, ma60), ma60), R(100))

\* lines 261-268
BiasPts(close, ma60) ==
    IF close.ok /\ ma60.ok
    THEN (IF RLt(Bias(close.val, ma60.val), R(0 - 10)) THEN 20 ELSE 0)
    ELSE 0

\* lines 273-287
ModeBKdPts(k, d) ==
    IF k.ok /\ d.ok
    THEN IF RLt(k.val, R(20)) /\ RLt(d.val, R(20)) /\ RLt(d.val, k.val) THEN 20
         ELSE IF RLt(k.val, R(20)) /\ RLt(d.val, R(20)) THEN 10
         ELSE IF RLt(k.val, R(30)) \/ RLt(d.val, R(30)) THEN 5
         ELSE 0
    ELSE 0

\* compute_score_mode_b(df), the library returning rsi and stoch
ComputeScoreModeB(df, rsi, stoch) ==
    IF TooFewBars(df) THEN NoScore
    ELSE
      LET close     == LastClose(df)
          ma60      == LastMa(df, 60)
          ma240     == LastMa240(df)
          price_pts == PricePts(close, ma60, ma240)
          price_level_score == price_pts
          rsi_pts   == ModeBRsiPts(rsi)
          bias_pts  == BiasPts(close, ma60)
          oversold_score == rsi_pts + bias_pts
          kd_pts    == ModeBKdPts(stoch.k, stoch.d)
          lt_baseline_score == kd_pts
          total_score == price_level_score + oversold_score + lt_baseline_score
      IN  [kind  |-> "score",
           total |-> total_score,
           dimensions |->
              [price_level |-> Dim(price_level_score, 40),
               oversold    |-> Dim(oversold_score, 40),
               lt_baseline |-> Dim(lt_baseline_score, 20)],
           details |->
              <<Detail("60/240MA", Judged(close.ok /\ ma60.ok), price_pts, 40),
                Detail("RSI", Judged(rsi.ok), rsi_pts, 20),
                Detail("bias", Judged(close.ok /\ ma60.ok), bias_pts, 20),
                Detail("KD", Judged(stoch.k.ok /\ stoch.d.ok), kd_pts, 20)>>]

ScoreIdle ==
    /\ sc_df = [has_volume |-> FALSE, close |-> <<>>, volume |-> <<>>]
    /\ sc_pc = "idle"
    /\ sc_model = "none"
    /\ sc_res = NotScored
    /\ sc_ta = NoReadings

ScoreInit ==
    /\ sc_df \in ScoreFrames
    /\ sc_pc = "start"
    /\ sc_model = "none"
    /\ sc_res = NotScored
    /\ sc_ta = NoReadings

\* compute_score(df) is called
ScoreGeneral ==
    /\ sc_pc = "start"
    /\ \E rsi \in RsiReadings, stoch \in StochReadings, macd \in MacdReadings :
          /\ sc_res' = ComputeScore(sc_df, rsi, stoch, macd)
          /\ sc_ta' = [rsi |-> rsi, stoch |-> stoch, macd |-> macd]
    /\ sc_model' = "general"
    /\ sc_pc' = "done"
    /\ UNCHANGED notScore
    /\ UNCHANGED sc_df

\* compute_score_mode_a(df) is called
ScoreModeA ==
    /\ sc_pc = "start"
    /\ \E rsi \in RsiReadings, macd \in MacdReadings :
          /\ sc_res' = ComputeScoreModeA(sc_df, rsi, macd)
          /\ sc_ta' = [rsi |-> rsi, stoch |-> NoStoch, macd |-> macd]
    /\ sc_model' = "A"
    /\ sc_pc' = "done"
    /\ UNCHANGED notScore
    /\ UNCHANGED sc_df

\* compute_score_mode_b(df) is called
ScoreModeB ==
    /\ sc_pc = "start"
    /\ \E rsi \in RsiReadings, stoch \in StochReadings :
          /\ sc_res' = ComputeScoreModeB(sc_df, rsi, stoch)
          /\ sc_ta' = [rsi |-> rsi, stoch |-> stoch, macd |-> NoMacd]
    /\ sc_model' = "B"
    /\ sc_pc' = "done"
    /\ UNCHANGED notScore
    /\ UNCHANGED sc_df

ScoreNext ==
    \/ ScoreGeneral
    \/ ScoreModeA
    \/ ScoreModeB

(***************************************************************************)
(* The functions of the core called by a caller that keeps its frame       *)
(*                                                                         *)
(* A pandas DataFrame is a mutable object passed by reference.  fr_heap    *)
(* maps object identities to DataFrame objects; the caller's frame is the  *)
(* object CallerRef.  Inside a function, df is a reference: df.copy() and  *)
(* .reset_index(drop=True) return a new object, df[name] = values writes   *)
(* into the object df refers to.                                           *)
(***************************************************************************)
\* the largest number of bars of the caller's frame
MaxFrameLen == 65

CallerRef == 1

\* object identities: the caller's frame and the temporaries of one call
Refs == 1..3

\* no object
FreeSlot == [cols |-> {}, rows |-> <<>>, index |-> "free", derived |-> NoColumns]

\* the columns of a DataFrame object: those it came with and those assigned
ColumnsOf(obj) == obj.cols \cup DOMAIN obj.derived

\* a new object identity
Alloc(heap) == CHOOSE id \in Refs : heap[id].index = "free" /\ \A j \in 1..(id - 1) : heap[j].index # "free"

\* a "copy" that hands back the same object
DfAlias(h) == h

\* df.copy(): a new object with the same index, rows and columns
DfCopy(h) ==
    [heap |-> [h.heap EXCEPT ![Alloc(h.heap)] = h.heap[h.ref]], ref |-> Alloc(h.heap)]

\* df.reset_index(drop=True): a new object with a 0..n-1 index
ResetIndex(h) ==
    [heap |-> [h.heap EXCEPT ![Alloc(h.heap)] = [h.heap[h.ref] EXCEPT !.index = "range"]],
     ref |-> Alloc(h.heap)]

\* df[name] = values: writes the column into the object df refers to
SetCol(h, name, values) ==
    LET old == h.heap[h.ref].derived
        new == [c \in DOMAIN old \cup {name} |-> IF c = name THEN values ELSE old[c]]
    IN  [heap |-> [h.heap EXCEPT ![h.ref].derived = new], ref |-> h.ref]

\* df["close"]
CloseOf(obj) == [t \in 1..Len(obj.rows) |-> obj.rows[t].close]

\* df["close"].rolling(p).mean()
RollMeanColumn(close, p) == [t \in 1..Len(close) |-> RollMean(close, t, p)]

\* the frame as the strategies read it
AsScreened(obj) == [cols |-> obj.cols, rows |-> obj.rows]

\* the frame as the scoring models read it
AsScored(obj) ==
    [has_volume |-> "volume" \in obj.cols,
     close  |-> CloseOf(obj),
     volume |-> IF "volume" \in obj.cols
                THEN [t \in 1..Len(obj.rows) |-> obj.rows[t].volume] ELSE <<>>]

RECURSIVE SetMaCols(_, _, _, _)
\* for p in periods: df[f"ma{p}"] = df["close"].rolling(p).mean()
SetMaCols(h, periods, j, close) ==
    IF j > Len(periods) THEN h
    ELSE SetMaCols(SetCol(h, <<"ma", periods[j]>>, RollMeanColumn(close, periods[j])),
                   periods, j + 1, close)

\* utils.py 139-142: compute_ma(df, periods): what it leaves on the heap and
\* what it returns
ComputeMa(heap, periods) ==
    LET h0 == [heap |-> heap, ref |-> CallerRef]
        h1 == DfCopy(h0)
        h2 == SetMaCols(h1, periods, 1, CloseOf(h1.heap[h1.ref]))
    IN  [heap |-> h2.heap, out |-> h2.heap[h2.ref]]

RECURSIVE KdFold(_, _, _, _)
\* lines 170-175: k_vals and d_vals, filled row by row; ks and ds hold the
\* values of the rows already done (row 1 keeps the seed)
KdFold(rows, period, ks, ds) ==
    IF Len(ds) >= Len(rows) THEN [k |-> ks, d |-> ds]
    ELSE LET t  == Len(ds) + 1
             kn == IF t = 1 THEN R(KdSeed)
                   ELSE RAdd(RMul(<<2, 3>>, ks[t - 1]),
                             RMul(<<1, 3>>, Rsv(rows, t, period)))
             dn == IF t = 1 THEN R(KdSeed)
                   ELSE RAdd(RMul(<<2, 3>>, ds[t - 1]), RMul(<<1, 3>>, kn))
         IN  KdFold(rows, period, Append(ks, kn), Append(ds, dn))

\* utils.py 162-179: compute_kd(df, period)
ComputeKd(heap, period) ==
    LET h0 == [heap |-> heap, ref |-> CallerRef]
        h1 == DfCopy(h0)
        rows == h1.heap[h1.ref].rows
        kd == KdFold(rows, period, <<>>, <<>>)
        h2 == SetCol(h1, <<"k_val", 0>>,
                     [t \in 1..Len(rows) |-> Some(Round2(kd.k[t]))])
        h3 == SetCol(h2, <<"d_val", 0>>,
                     [t \in 1..Len(rows) |-> Some(Round2(kd.d[t]))])
    IN  [heap |-> h3.heap, out |-> h3.heap[h3.ref]]

RECURSIVE SetHistoryCols(_, _, _, _)
\* Single_stock_page.py 98-115: the four historical columns of each period
SetHistoryCols(h, cfg, j, close) ==
    IF j > Len(cfg) THEN h
    ELSE LET p  == cfg[j]
             hc == HistoryColumns(close, p)
             a  == SetCol(h, <<"ma", p>>, hc.ma)
             b  == SetCol(a, <<"deduction", p>>, hc.deduction)
             c  == SetCol(b, <<"bias_pct", p>>, hc.bias_pct)
             d  == SetCol(c, <<"trend", p>>, hc.trend)
         IN  SetHistoryCols(d, cfg, j + 1, close)

\* Single_stock_page.py 86-143: calculate_deduction_values(df, display_limit)
CalculateDeductionValues(heap, limit) ==
    LET h0 == [heap |-> heap, ref |-> CallerRef]
        h1 == ResetIndex(DfCopy(h0))
        close == CloseOf(h1.heap[h1.ref])
        cfg == MaConfigs(close, limit)
    IN  IF Len(close) = 0 \/ cfg = <<>>
        THEN [heap |-> h1.heap, out |-> <<h1.heap[h1.ref], <<>>>>]
        ELSE LET h2 == SetHistoryCols(h1, cfg, 1, close)
             IN  [heap |-> h2.heap, out |-> <<h2.heap[h2.ref], Summary(close, limit)>>]

\* Screener_page.py 35-86 and 149-192: these two strategies only read df
\* (tail, iloc and reset_index return new objects that are not written to)
ReadOnlyStrategy(heap, result) == [heap |-> heap, out |-> result]

\* Screener_page.py 96-138: check_bullish_ma_alignment(df)
BullishMaAlignmentCall(heap) ==
    LET h0 == [heap |-> heap, ref |-> CallerRef]
        df == AsScreened(heap[CallerRef])
    IN  IF ~(MaRequiredCols \subseteq df.cols) \/ Len(df.rows) < 21
        THEN [heap |-> heap, out |-> CheckBullishMaAlignment(df)]
        ELSE LET h1 == DfCopy(h0)
                 h2 == SetMaCols(h1, <<5, 10, 20>>, 1, CloseOf(h1.heap[h1.ref]))
             IN  [heap |-> h2.heap,
                  out |-> CheckBullishMaAlignment(AsScreened(h2.heap[h2.ref]))]

\* Screener_page.py 204-251: check_oversold_reversal(df, ...)
OversoldReversalCall(heap, par) ==
    LET h0 == [heap |-> heap, ref |-> CallerRef]
        df == AsScreened(heap[CallerRef])
    IN  IF ~(OversoldRequiredCols \subseteq df.cols) \/ Len(df.rows) < 21
        THEN [heap |-> heap,
              out |-> CheckOversoldReversal(df, par.bias_threshold, par.shadow_ratio)]
        ELSE LET h1 == DfCopy(h0)
                 h2 == SetMaCols(h1, <<20>>, 1, CloseOf(h1.heap[h1.ref]))
             IN  [heap |-> h2.heap,
                  out |-> CheckOversoldReversal(AsScreened(h2.heap[h2.ref]),
                                                par.bias_threshold, par.shadow_ratio)]

\* a column computed by pandas_ta, of which the models read the last row
TaColumn(reading) == [last |-> reading]

RECURSIVE SetTaCols(_, _, _)
\* df[name] = <a pandas_ta column>, for each <<name, last-row reading>>
SetTaCols(h, cols, j) ==
    IF j > Len(cols) THEN h
    ELSE SetTaCols(SetCol(h, <<cols[j][1], 0>>, TaColumn(cols[j][2])), cols, j + 1)

\* app.py 482-633: compute_score(df)
ComputeScoreCall(heap, ta) ==
    LET h0 == [heap |-> heap, ref |-> CallerRef]
    IN  IF TooFewBars(AsScored(heap[CallerRef])) THEN [heap |-> heap, out |-> NoScore]
        ELSE LET h1 == ResetIndex(DfCopy(h0))
                 h2 == SetMaCols(h1, <<10, 20, 60>>, 1, CloseOf(h1.heap[h1.ref]))
                 h3 == SetTaCols(h2, <<<<"rsi14", ta.rsi>>, <<"k_stoch", ta.stoch.k>>,
                                       <<"d_stoch", ta.stoch.d>>, <<"macd_dif", ta.macd.dif>>,
                                       <<"macd_hist", ta.macd.hist>>,
                                       <<"macd_dea", ta.macd.dea>>>>, 1)
             IN  [heap |-> h3.heap,
                  out |-> ComputeScore(AsScored(h3.heap[h3.ref]), ta.rsi, ta.stoch, ta.macd)]

\* Score_page.py 51-179: compute_score_mode_a(df)
ComputeScoreModeACall(heap, ta) ==
    LET h0 == [heap |-> heap, ref |-> CallerRef]
    IN  IF TooFewBars(AsScored(heap[CallerRef])) THEN [heap |-> heap, out |-> NoScore]
        ELSE LET h1 == ResetIndex(DfCopy(h0))
                 h2 == SetMaCols(h1, <<10, 20, 60>>, 1, CloseOf(h1.heap[h1.ref]))
                 h3 == SetTaCols(h2, <<<<"rsi14", ta.rsi>>, <<"macd_hist", ta.macd.hist>>>>, 1)
             IN  [heap |-> h3.heap,
                  out |-> ComputeScoreModeA(AsScored(h3.heap[h3.ref]), ta.rsi, ta.macd)]

\* Score_page.py 198-316: compute_score_mode_b(df)
ComputeScoreModeBCall(heap, ta) ==
    LET h0 == [heap |-> heap, ref |-> CallerRef]
    IN  IF TooFewBars(AsScored(heap[CallerRef])) THEN [heap |-> heap, out |-> NoScore]
        ELSE LET h1 == ResetIndex(DfCopy(h0))
                 n  == Len(h1.heap[h1.ref].rows)
                 h2 == SetMaCols(h1, IF n >= Ma240Bars THEN <<60, 240>> ELSE <<60>>, 1,
                                 CloseOf(h1.heap[h1.ref]))
                 h3 == SetTaCols(h2, <<<<"rsi14", ta.rsi>>, <<"k_stoch", ta.stoch.k>>,
                                       <<"d_stoch", ta.stoch.d>>>>, 1)
             IN  [heap |-> h3.heap,
                  out |-> ComputeScoreModeB(AsScored(h3.heap[h3.ref]), ta.rsi, ta.stoch)]

\* the call made: a function of the core applied to the caller's frame
Run(call, heap, ta) ==
    CASE call.name = "compute_ma" -> ComputeMa(heap, call.arg)
      [] call.name = "compute_kd" -> ComputeKd(heap, call.arg)
      [] call.name = "calculate_deduction_values" -> CalculateDeductionValues(heap, call.arg)
      [] call.name = "check_consolidation_breakout" ->
            ReadOnlyStrategy(heap, Screen(AsScreened(heap[CallerRef]), call.arg).breakout)
      [] call.name = "check_volume_surge_bullish" ->
            ReadOnlyStrategy(heap, Screen(AsScreened(heap[CallerRef]), call.arg).surge)
      [] call.name = "check_bullish_ma_alignment" -> BullishMaAlignmentCall(heap)
      [] call.name = "check_oversold_reversal" -> OversoldReversalCall(heap, call.arg)
      [] call.name = "compute_score" -> ComputeScoreCall(heap, ta)
      [] call.name = "compute_score_mode_a" -> ComputeScoreModeACall(heap, ta)
      [] OTHER -> ComputeScoreModeBCall(heap, ta)

\* when the call has returned its temporaries are no longer referenced
AfterReturn(heap) == [id \in Refs |-> IF id = CallerRef THEN heap[id] ELSE FreeSlot]

FrameShapes == {"up", "crash", "flat"}

\* bar t of an n-bar frame: a flat frame has high = low = close on every bar
FrameBar(shape, n, t) ==
    LET c == ScoreClose(shape, n, t)
        w == IF shape = "flat" THEN 0 ELSE 2
    IN  [open |-> IF shape = "flat" THEN c ELSE c - 1, high |-> c + w, low |-> c - w,
         close |-> c, volume |-> IF t = n THEN 2000 ELSE 1000, date |-> t]

FrameLens == {0, 3, 6, MaxKdLen, 22, MaxFrameLen}

\* the frames a caller holds
CallerFrames ==
    {[cols |-> cs, rows |-> [t \in 1..n |-> FrameBar(sh, n, t)],
      index |-> ix, derived |-> NoColumns] :
        cs \in {AllCols, AllCols \ {"volume"}}, n \in FrameLens,
        sh \in FrameShapes, ix \in {"range", "dates"}}

\* what pandas_ta computes for the last bar of the caller's series
FrameReadings ==
    {NoReadings,
     [rsi |-> Some(R(60)), stoch |-> [k |-> Some(R(15)), d |-> Some(R(10))],
      macd |-> [dif |-> Some(R(2)), dea |-> Some(R(1)), hist |-> Some(R(1))]]}

MaPeriodLists == {<<>>, <<5>>, <<5, 10, 20>>}

FrameIdle ==
    /\ fr_heap = [id \in Refs |-> FreeSlot]
    /\ fr_before = FreeSlot
    /\ fr_ta = NoReadings
    /\ fr_pc = "idle"
    /\ fr_fn = [name |-> "none", arg |-> 0]
    /\ fr_out = <<>>

FrameInit ==
    /\ \E f \in CallerFrames :
          /\ fr_heap = [id \in Refs |-> IF id = CallerRef THEN f ELSE FreeSlot]
          /\ fr_before = f
    /\ fr_ta \in FrameReadings
    /\ fr_pc = "ready"
    /\ fr_fn = [name |-> "none", arg |-> 0]
    /\ fr_out = <<>>

\* the caller calls a function on its frame, or calls it a second time with
\* the same arguments
Invoke(call) ==
    /\ fr_pc \in {"ready", "once"}
    /\ fr_pc = "once" => (fr_fn.name = call.name /\ fr_fn.arg = call.arg)
    /\ LET r == Run(call, fr_heap, fr_ta)
       IN  /\ fr_heap' = AfterReturn(r.heap)
           /\ fr_out' = Append(fr_out, r.out)
    /\ fr_fn' = call
    /\ fr_pc' = IF fr_pc = "ready" THEN "once" ELSE "twice"
    /\ UNCHANGED notFrame
    /\ UNCHANGED <<fr_before, fr_ta>>

CallComputeMa == \E ps \in MaPeriodLists : Invoke([name |-> "compute_ma", arg |-> ps])

\* the exact K and D of the model are computed on frames of at most MaxKdLen bars
CallComputeKd ==
    /\ Len(fr_heap[CallerRef].rows) <= MaxKdLen
    /\ \E p \in KdPeriods : Invoke([name |-> "compute_kd", arg |-> p])

CallDeduction ==
    \E limit \in {5, 60} : Invoke([name |-> "calculate_deduction_values", arg |-> limit])

CallBreakout == Invoke([name |-> "check_consolidation_breakout", arg |-> DefaultParams])

CallAlignment == Invoke([name |-> "check_bullish_ma_alignment", arg |-> 0])

CallSurge == Invoke([name |-> "check_volume_surge_bullish", arg |-> DefaultParams])

CallOversold == Invoke([name |-> "check_oversold_reversal", arg |-> DefaultParams])

CallScore == Invoke([name |-> "compute_score", arg |-> 0])

CallScoreModeA == Invoke([name |-> "compute_score_mode_a", arg |-> 0])

CallScoreModeB == Invoke([name |-> "compute_score_mode_b", arg |-> 0])

FrameNext ==
    \/ CallComputeMa
    \/ CallComputeKd
    \/ CallDeduction
    \/ CallBreakout
    \/ CallAlignment
    \/ CallSurge
    \/ CallOversold
    \/ CallScore
    \/ CallScoreModeA
    \/ CallScoreModeB

(***************************************************************************)
(* fetch_stock_candles   src/utils.py:50-119                               *)
(*                                                                         *)
(* A date is the number of its day (datetime.toordinal up to an offset):   *)
(* timedelta(days = n) adds n, and strptime / strftime with "%Y-%m-%d"     *)
(* take a date string to its day and back.  The provider is a parameter    *)
(* of the model: a call returns the candles of the trading days of the     *)
(* requested range, or no candle, or raises.                               *)
(***************************************************************************)
\* line 17
FUGLE_MAX_RANGE_DAYS == 360

\* datetime.today()
FetchToday == 1100

NoDate == [ok |-> FALSE, day |-> 0]

Date(d) == [ok |-> TRUE, day |-> d]

FetchLimits == {10, 300}

\* date_from, in days from today
FromOffsets == {1, 0, -1, -29, -30, -31, -358, -359, -360, -389, -390,
                -719, -720, -749, -750, -1079, -1080}

FetchDateFroms == {NoDate} \cup {Date(FetchToday + k) : k \in FromOffsets}

FetchDateTos == {NoDate, Date(FetchToday), Date(FetchToday - 30)}

\* the exchange is closed two days in seven
TradingDay(d) == d % 7 < 5

\* the days lo..hi in ascending order
Days(lo, hi) == [i \in 1..(hi - lo + 1) |-> lo + i - 1]

\* _fetch_chunk (lines 32-47) when the provider answers with data
Candles(lo, hi) == SelectSeq(Days(lo, hi), TradingDay)

\* line 80: max(90, int(limit * 1.5) + 30)
DaysBack(limit) == Max2(90, (limit * 3) \div 2 + 30)

\* a chunk one day longer
ChunkStartWide(from, end) == Max2(from, end - FUGLE_MAX_RANGE_DAYS)

\* line 90: max(dt_from, chunk_end - timedelta(days=_FUGLE_MAX_RANGE_DAYS - 1))
ChunkStart(from, end) == Max2(from, end - (FUGLE_MAX_RANGE_DAYS - 1))

Elems(s) == {s[i] : i \in DOMAIN s}

\* lines 115-117: drop_duplicates(subset="date").sort_values("date"), for
\* records dated within lo..hi
SortedDates(records, lo, hi) ==
    LET dates      == Elems(records)
        present(d) == d \in dates
    IN  SelectSeq(Days(lo, hi), present)

\* df.tail(n)
LastRows(s, n) == SubSeq(s, Max2(1, Len(s) - n + 1), Len(s))

\* lines 103-119, the requests having been made within lo..hi
FetchResult(records, limit, lo, hi) ==
    IF Len(records) = 0 THEN [kind |-> "frame", dates |-> <<>>]
    ELSE [kind |-> "frame", dates |-> LastRows(SortedDates(records, lo, hi), limit)]

FetchIdle ==
    /\ fc_args = [limit |-> 10, date_from |-> NoDate, date_to |-> NoDate]
    /\ dt_from = 0
    /\ dt_to = 0
    /\ chunk_end = 0
    /\ all_records = <<>>
    /\ requests = <<>>
    /\ fc_pc = "idle"
    /\ fc_out = [kind |-> "none"]

FetchInit ==
    /\ fc_args \in [limit : FetchLimits, date_from : FetchDateFroms, date_to : FetchDateTos]
    /\ dt_from = 0
    /\ dt_to = 0
    /\ chunk_end = 0
    /\ all_records = <<>>
    /\ requests = <<>>
    /\ fc_pc = "start"
    /\ fc_out = [kind |-> "none"]

\* lines 73-88: the defaults, the parsing, and the loop's initialisation
FetchEnter ==
    /\ fc_pc = "start"
    /\ dt_to' = IF fc_args.date_to.ok THEN fc_args.date_to.day ELSE FetchToday
    /\ dt_from' = IF fc_args.date_from.ok THEN fc_args.date_from.day
                  ELSE FetchToday - DaysBack(fc_args.limit)
    /\ chunk_end' = dt_to'
    /\ all_records' = <<>>
    /\ fc_pc' = "loop"
    /\ UNCHANGED notFetch
    /\ UNCHANGED <<fc_args, requests, fc_out>>

\* lines 89-101: one iteration of the while loop
FetchChunk ==
    /\ fc_pc = "loop"
    /\ chunk_end >= dt_from
    /\ LET chunk_start == ChunkStart(dt_from, chunk_end)
       IN  /\ requests' = Append(requests, <<chunk_start, chunk_end>>)
           /\ \E answer \in {"data", "empty", "raise"} :
                IF answer = "raise"
                THEN /\ fc_pc' = "raised"
                     /\ fc_out' = [kind |-> "error"]
                     /\ UNCHANGED <<all_records, chunk_end>>
                ELSE /\ all_records' =
                          all_records \o (IF answer = "data"
                                          THEN Candles(chunk_start, chunk_end)
                                          ELSE <<>>)
                     /\ IF chunk_start <= dt_from
                        THEN fc_pc' = "after" /\ UNCHANGED chunk_end
                        ELSE fc_pc' = "loop" /\ chunk_end' = chunk_start - 1
                     /\ UNCHANGED fc_out
    /\ UNCHANGED notFetch
    /\ UNCHANGED <<fc_args, dt_from, dt_to>>

\* lines 103-119, reached by the break or by a false loop condition
FetchReturn ==
    /\ \/ fc_pc = "after"
       \/ fc_pc = "loop" /\ chunk_end < dt_from
    /\ fc_out' = FetchResult(all_records, fc_args.limit, dt_from, dt_to)
    /\ fc_pc' = "done"
    /\ UNCHANGED notFetch
    /\ UNCHANGED <<fc_args, dt_from, dt_to, chunk_end, all_records, requests>>

FetchNext ==
    \/ FetchEnter
    \/ FetchChunk
    \/ FetchReturn

(***************************************************************************)
(* Specifications                                                          *)
(***************************************************************************)
InitScan == ScanInit /\ KdIdle /\ DedIdle /\ ScrIdle /\ ScoreIdle /\ FrameIdle /\ FetchIdle

SpecScan == InitScan /\ [][ScanNext]_vars

\* scan_watchlist is straight-line synchronous code: the step it is at is
\* always taken (a fetch returns or raises, time.sleep returns)
SpecScanFair == InitScan /\ [][ScanNext]_vars /\ WF_vars(ScanNext)

InitKd == KdInit /\ ScanIdle /\ DedIdle /\ ScrIdle /\ ScoreIdle /\ FrameIdle /\ FetchIdle

SpecKd == InitKd /\ [][KdNext]_vars

InitDed == DedInit /\ ScanIdle /\ KdIdle /\ ScrIdle /\ ScoreIdle /\ FrameIdle /\ FetchIdle

SpecDed == InitDed /\ [][DedNext]_vars

InitScr == ScrInit /\ ScanIdle /\ KdIdle /\ DedIdle /\ ScoreIdle /\ FrameIdle /\ FetchIdle

SpecScr == InitScr /\ [][ScrNext]_vars

InitScore == ScoreInit /\ ScanIdle /\ KdIdle /\ DedIdle /\ ScrIdle /\ FrameIdle /\ FetchIdle

SpecScore == InitScore /\ [][ScoreNext]_vars

InitFrame == FrameInit /\ ScanIdle /\ KdIdle /\ DedIdle /\ ScrIdle /\ ScoreIdle /\ FetchIdle

SpecFrame == InitFrame /\ [][FrameNext]_vars

InitFetch == FetchInit /\ ScanIdle /\ KdIdle /\ DedIdle /\ ScrIdle /\ ScoreIdle /\ FrameIdle

\* fetch_stock_candles is synchronous code: the step it is at is taken
SpecFetch == InitFetch /\ [][FetchNext]_vars /\ WF_vars(FetchNext)

(***************************************************************************)
(* Claims about scan_watchlist (checked under SpecScan)                    *)
(***************************************************************************)
\* the entries of errors recorded for the k-th symbol of the input
ErrorsFor(k) == {j \in DOMAIN errors : errorsAt[j] = k}

\* the entries of results recorded for the k-th symbol of the input
ResultsFor(k) == {j \in DOMAIN results : results[j].at = k}

\* C1: scan isolation.  An exception raised while fetching or evaluating
\* symbol k never escapes the scan: the scan can always take its next step
\* until it returns, and when it has returned every symbol of the list was
\* fetched once, in order, every iteration has an outcome, and each symbol
\* whose iteration raised has exactly one error entry (an exception entry
\* naming that symbol) and no match.
ScanIsolation ==
    /\ scan_pc \in {"loop", "status", "progress", "fetch", "strategy", "sleep", "done"}
    /\ scan_pc # "done" => ENABLED ScanNext
    /\ scan_pc = "done" =>
          /\ fetchLog = [k \in 1..Total |-> k]
          /\ Len(outcomes) = Total
          /\ \A k \in 1..Total :
                outcomes[k] = "raised" =>
                  /\ Cardinality(ErrorsFor(k)) = 1
                  /\ \A j \in ErrorsFor(k) :
                        errors[j].symbol = symbols[k] /\ errors[j].kind = "exception"
                  /\ ResultsFor(k) = {}

\* C1 witness: a finished scan of several symbols in which one symbol raised,
\* a later one matched and an earlier one was evaluated without a match.
ScanIsolationWitness ==
    /\ scan_pc = "done"
    /\ Total = 3
    /\ outcomes = <<"none", "raised", "hit">>
    /\ Len(errors) = 1
    /\ Len(results) = 1

\* C9 (as claimed): the fractions handed to progress_callback are strictly
\* increasing, the last one of a finished scan is 1, and the value k/N is
\* handed over only once k symbols have completed (their outcome recorded).
ProgressTracksCompletion ==
    /\ \A j \in DOMAIN progressLog :
          j > 1 => progressLog[j - 1].num * progressLog[j].den
                     < progressLog[j].num * progressLog[j - 1].den
    /\ (scan_pc = "done" /\ has_cb.progress /\ Total > 0) =>
          progressLog[Len(progressLog)].num = progressLog[Len(progressLog)].den
    /\ progressLog # <<>> => progressLog[Len(progressLog)].num <= Len(outcomes)

\* C12: every symbol occurrence of the input has exactly one outcome: one
\* match entry in results tagged with the symbol; one error entry with the
\* no-data reason when the fetched series is empty (the strategy is not
\* called on an empty series); one error entry with the exception's message
\* cut to 80 characters; or no entry at all when the strategy returns no
\* match.  No occurrence is in both collections and
\* len(results) + len(errors) <= N.
ScanOutcomes ==
    /\ scan_pc = "strategy" => scan_df = "rows"
    /\ Len(results) + Len(errors) <= Len(outcomes)
    /\ Len(outcomes) <= Total
    /\ \A k \in 1..Total :
          IF k > Len(outcomes) THEN ErrorsFor(k) = {} /\ ResultsFor(k) = {}
          ELSE
            /\ Cardinality(ErrorsFor(k)) + Cardinality(ResultsFor(k)) <= 1
            /\ outcomes[k] = "hit" =>
                  /\ Cardinality(ResultsFor(k)) = 1
                  /\ \A j \in ResultsFor(k) : results[j].symbol = symbols[k]
            /\ outcomes[k] = "empty" =>
                  /\ Cardinality(ErrorsFor(k)) = 1
                  /\ \A j \in ErrorsFor(k) :
                        errors[j] = [symbol |-> symbols[k], kind |-> "no_data", len |-> 4]
            /\ outcomes[k] = "raised" =>
                  /\ Cardinality(ErrorsFor(k)) = 1
                  /\ \A j \in ErrorsFor(k) :
                        /\ errors[j].symbol = symbols[k]
                        /\ errors[j].kind = "exception"
                        /\ errors[j].len <= 80
                        /\ \E m \in ExcMsgLens : errors[j].len = Min2(m, 80)
            /\ outcomes[k] = "none" =>
                  ErrorsFor(k) = {} /\ ResultsFor(k) = {}

\* C12 witness: a finished scan of the same symbol three times whose
\* occurrences ended as an empty fetch, an exception with a message longer
\* than 80 characters, and a match.
ScanOutcomesWitness ==
    /\ scan_pc = "done"
    /\ symbols = <<"2330", "2330", "2330">>
    /\ outcomes = <<"empty", "raised", "hit">>
    /\ Len(errors) = 2
    /\ errors[2].len = 80
    /\ Len(results) = 1

\* C13: in the two collections of scan_watchlist the matches are in the
\* relative order of their symbols in the input list, and so are the error
\* entries: a later entry always belongs to a later position of the input,
\* and carries the symbol of that position.
ScanOrder ==
    /\ \A j \in DOMAIN results :
          /\ results[j].symbol = symbols[results[j].at]
          /\ j > 1 => results[j - 1].at < results[j].at
    /\ Len(errorsAt) = Len(errors)
    /\ \A j \in DOMAIN errors :
          /\ errors[j].symbol = symbols[errorsAt[j]]
          /\ j > 1 => errorsAt[j - 1] < errorsAt[j]

\* C13 witness: a finished scan with two matches of different symbols,
\* returned in input order.
ScanOrderWitness ==
    /\ scan_pc = "done"
    /\ symbols = <<"2330", "2317", "2317">>
    /\ outcomes = <<"hit", "empty", "hit">>
    /\ results[1].symbol = "2330"
    /\ results[2].symbol = "2317"

\* the fetches made so far are those of positions 1..m of the input, in
\* order and once each; a fetch starts only when every earlier symbol has
\* its outcome recorded and its pacing delay slept; a scan of no symbol
\* calls nothing; a returned scan made N fetches and N delays
FetchDiscipline ==
    /\ Len(fetchLog) <= Total
    /\ fetchLog = [k \in 1..Len(fetchLog) |-> k]
    /\ scan_pc = "fetch" =>
          /\ Len(fetchLog) = scan_i
          /\ Len(outcomes) = scan_i
          /\ sleeps = scan_i
    /\ Len(fetchLog) <= sleeps + 1
    /\ Len(fetchLog) <= Len(outcomes) + 1
    /\ Total = 0 =>
          /\ fetchLog = <<>> /\ statusLog = <<>> /\ progressLog = <<>>
          /\ results = <<>> /\ errors = <<>> /\ sleeps = 0
    /\ scan_pc = "done" =>
          /\ Len(fetchLog) = Total
          /\ sleeps = Total
          /\ scan_i = Total

\* C14: for a list of N symbols scan_watchlist makes exactly N fetches, one
\* per symbol occurrence in input order, each started only after the
\* previous symbol's outcome is recorded and the pacing delay applied; a
\* failed or empty fetch is never repeated; the scan terminates after N
\* iterations, and for N = 0 it returns two empty collections without a
\* fetch or a callback.
ScanSequential == []FetchDiscipline /\ <>(scan_pc = "done")

\* C14 witness: a returned scan of three symbols in which one fetch raised
\* and another came back empty, with three fetches and three delays made.
ScanSequentialWitness ==
    /\ scan_pc = "done"
    /\ Total = 3
    /\ outcomes = <<"raised", "empty", "none">>
    /\ fetchLog = <<1, 2, 3>>
    /\ sleeps = 3

(***************************************************************************)
(* Claims about compute_kd (checked under SpecKd)                          *)
(***************************************************************************)
InPercentRange(x) == RLe(R(0), x) /\ RLe(x, R(100))

\* C7: KD bounds.  At every bar t, K(t) and D(t) lie in [0, 100], both as
\* computed by the recurrence and as stored (rounded) in k_val / d_val.
KDBounds ==
    /\ \A t \in DOMAIN k_vals : InPercentRange(k_vals[t]) /\ InPercentRange(d_vals[t])
    /\ \A t \in DOMAIN k_val :
          /\ k_val[t].ok /\ 0 <= k_val[t].val /\ k_val[t].val <= 100 * 100
          /\ d_val[t].ok /\ 0 <= d_val[t].val /\ d_val[t].val <= 100 * 100

\* C7 witness: compute_kd has returned for a series in which one bar's raw
\* stochastic value is above 100 and another's is below 0, after K has moved
\* away from its seed.
KDBoundsWitness ==
    /\ kd_pc = "done"
    /\ \E t \in DOMAIN kd_df :
          /\ RsvRaw(kd_df, t, kd_period).ok
          /\ RLt(R(100), RsvRaw(kd_df, t, kd_period).val)
    /\ \E t \in DOMAIN kd_df :
          /\ RsvRaw(kd_df, t, kd_period).ok
          /\ RLt(RsvRaw(kd_df, t, kd_period).val, R(0))
    /\ \E t \in DOMAIN k_val : k_val[t].val > 90 * 100

\* the rows of the first period-1 bars, whose high/low window is incomplete
WarmupRows == {t \in DOMAIN kd_df : t < kd_period}

\* C10 (as claimed): compute_kd yields no K/D value for the first period-1
\* bars of the series.
KDWarmupUndefined ==
    kd_pc = "done" => \A t \in WarmupRows : ~k_val[t].ok /\ ~d_val[t].ok

\* C10 (amended): compute_kd yields a K/D value for every bar; on the first
\* period-1 bars, where the window is incomplete, RSV is taken as 50 and the
\* stored K and D both equal the seed 50.
KDWarmupIsSeed ==
    kd_pc = "done" =>
        \A t \in WarmupRows :
            /\ k_val[t].ok /\ k_val[t].val = KdSeed * 100
            /\ d_val[t].ok /\ d_val[t].val = KdSeed * 100

\* C10 witness: compute_kd has returned for a series longer than the warm-up,
\* whose first full window already gives an RSV other than 50.
KDWarmupWitness ==
    /\ kd_pc = "done"
    /\ Cardinality(WarmupRows) = kd_period - 1
    /\ Len(kd_df) > kd_period
    /\ k_val[kd_period].val # KdSeed * 100

\* rows s+1..t are a run with RSV = 100 that starts from the seed: K and D
\* are both 50 at row s
SaturatedRun(s, t) ==
    /\ s < t
    /\ k_vals[s] = R(KdSeed) /\ d_vals[s] = R(KdSeed)
    /\ \A u \in (s + 1)..t : rsv[u] = R(100)

\* a <= b and a < b on exact values, by the sign of the difference taken
\* over the least common denominator
NotAbove(a, b) == RSub(b, a)[1] >= 0

Below(a, b) == RSub(b, a)[1] > 0

\* C21: KD convergence.  Starting from the seed K = D = 50, on any run of
\* bars where RSV = 100 at every step, K and D are non-decreasing from bar
\* to bar, D(t) <= K(t), and neither exceeds 100; the same holds of the
\* rounded k_val / d_val columns.
KDConvergence ==
    kd_pc = "done" =>
        \A s \in DOMAIN kd_df : \A t \in DOMAIN kd_df :
            SaturatedRun(s, t) =>
                \A u \in (s + 1)..t :
                    /\ NotAbove(k_vals[u - 1], k_vals[u])
                    /\ NotAbove(d_vals[u - 1], d_vals[u])
                    /\ NotAbove(d_vals[u], k_vals[u])
                    /\ NotAbove(k_vals[u], R(100))
                    /\ k_val[u - 1].val <= k_val[u].val
                    /\ d_val[u - 1].val <= d_val[u].val
                    /\ d_val[u].val <= k_val[u].val
                    /\ k_val[u].val <= 100 * 100

\* C21 witness: compute_kd has returned for a series with a run of at least
\* five bars of RSV = 100 from the seed, along which K has risen above 90
\* and D is still strictly below K.
KDConvergenceWitness ==
    /\ kd_pc = "done"
    /\ \E s \in DOMAIN kd_df : \E t \in DOMAIN kd_df :
          /\ SaturatedRun(s, t)
          /\ t >= s + 5
          /\ Below(R(90), k_vals[t])
          /\ Below(d_vals[t], k_vals[t])
          /\ Below(d_vals[t - 1], d_vals[t])

\* the window of row t is full and its highest high equals its lowest low
ZeroRangeAt(t) ==
    /\ t >= kd_period
    /\ \E m \in {kd_df[u].high : u \in (t - kd_period + 1)..t} :
          /\ \A u \in (t - kd_period + 1)..t : kd_df[u].high <= m /\ m <= kd_df[u].low
          /\ \E u \in (t - kd_period + 1)..t : kd_df[u].low = m

\* C20: KD zero-range fallback.  At every bar t whose period-bar window has
\* max(high) = min(low), compute_kd takes RSV(t) = 50, so that
\* K(t) = (2/3) K(t-1) + (1/3) * 50, and the call returns a k_val and a
\* d_val for that bar (no division by zero stops it).
KdZeroRangeFallback ==
    kd_pc \in {"loop", "done"} =>
        \A t \in 1..Len(kd_df) :
            ZeroRangeAt(t) =>
                /\ rsv[t] = R(50)
                /\ (t > 1 /\ (kd_pc = "done" \/ kd_i >= t)) =>
                      k_vals[t] =
                          RAdd(RMul(<<2, 3>>, k_vals[t - 1]), RMul(<<1, 3>>, R(50)))
                /\ kd_pc = "done" =>
                      /\ k_val[t].ok /\ d_val[t].ok
                      /\ t > 1 =>
                            k_val[t].val =
                                Round2(RAdd(RMul(<<2, 3>>, k_vals[t - 1]),
                                            RMul(<<1, 3>>, R(50))))

\* C20 witness: compute_kd has returned for a series with a zero-range
\* window at a bar whose previous K is not 50, so that the K of the bar is
\* not 50 either, next to a bar whose window has a range and an RSV other
\* than 50.
KdZeroRangeFallbackWitness ==
    /\ kd_pc = "done"
    /\ \E t \in 2..Len(kd_df) :
          /\ ZeroRangeAt(t)
          /\ k_vals[t - 1] # R(50)
          /\ k_val[t].val # 5000
    /\ \E u \in kd_period..Len(kd_df) : ~ZeroRangeAt(u) /\ rsv[u] # R(50)

(***************************************************************************)
(* Claims about calculate_deduction_values (checked under SpecDed)         *)
(***************************************************************************)
\* the label the three bands give to the bias of price now against price
\* then (both positive), with 100 * |now - then| compared to then
BandLabel(now, then) ==
    IF 100 * (now - then) > then THEN "bullish"
    ELSE IF 100 * (then - now) > then THEN "bearish"
    ELSE "consolidating"

\* C17: the trend classification is total and exclusive: every bias gets
\* exactly one label, consolidating when |bias| <= 1% (both +1% and -1%
\* included), bullish when bias > 1%, bearish when bias < -1%.  Checked on
\* every label calculate_deduction_values produces: the trend of each
\* summary row and each defined row of the historical trend_N columns.
TrendClassification ==
    ded_pc = "done" =>
        /\ summary.ok =>
              \A j \in DOMAIN summary.rows :
                  LET N == summary.rows[j].period
                  IN  /\ summary.rows[j].trend \in {"consolidating", "bullish", "bearish"}
                      /\ summary.rows[j].trend =
                            BandLabel(ded_df[Len(ded_df)], ded_df[Len(ded_df) - N + 1])
        /\ \A N \in DOMAIN ded_cols :
              \A t \in 1..Len(ded_df) :
                  ded_cols[N].trend[t] =
                      IF t <= N THEN "-" ELSE BandLabel(ded_df[t], ded_df[t - N])

\* C17 witness: a summary row whose bias is exactly +1% (labelled
\* consolidating) next to a historical row whose bias is exactly -1% is
\* not possible in one series, so the witness takes the +1% summary row
\* and a bullish historical row of the same call.
TrendClassificationWitness ==
    /\ ded_pc = "done"
    /\ summary.ok
    /\ \E j \in DOMAIN summary.rows :
          /\ summary.rows[j].period = 5
          /\ summary.rows[j].trend = "consolidating"
          /\ 100 * (ded_df[Len(ded_df)] - ded_df[Len(ded_df) - 4]) = ded_df[Len(ded_df) - 4]
    /\ 5 \in DOMAIN ded_cols

\* the series after one more bar whose close equals the current close
NextBarSame == Append(ded_df, ded_df[Len(ded_df)])

\* C18: the deduction bias predicts the moving average's next step.  For
\* every reported record of period N whose deduction price is positive,
\* when the bias is positive the N-period MA recomputed after appending one
\* bar whose close equals the current close is >= the current MA, and when
\* the bias is negative it is <= the current MA.  The sign of the bias is
\* read from the record (its current close against its deduction price) and
\* the reported diff_pct has that sign or is zero.
BiasPredictsMa ==
    (ded_pc = "done" /\ summary.ok) =>
        \A j \in DOMAIN summary.rows :
            LET rec == summary.rows[j]
                now == RollMean(ded_df, Len(ded_df), rec.period)
                nxt == RollMean(NextBarSame, Len(NextBarSame), rec.period)
            IN  rec.deduction_price > 0 =>
                    /\ now.ok /\ nxt.ok
                    /\ rec.ma_val = Round2(now.val)
                    /\ rec.diff_pct > 0 => rec.current_close > rec.deduction_price
                    /\ rec.diff_pct < 0 => rec.current_close < rec.deduction_price
                    /\ rec.current_close > rec.deduction_price => RLe(now.val, nxt.val)
                    /\ rec.current_close < rec.deduction_price => RLe(nxt.val, now.val)

\* C18 witness: one call reported a record with positive bias whose MA
\* rises strictly on the next bar and a record with negative bias whose MA
\* falls strictly.
BiasPredictsMaWitness ==
    /\ ded_pc = "done"
    /\ summary.ok
    /\ \E j, k \in DOMAIN summary.rows :
          LET up == summary.rows[j]
              dn == summary.rows[k]
          IN  /\ up.deduction_price > 0 /\ up.diff_pct > 0
              /\ RLt(RollMean(ded_df, Len(ded_df), up.period).val,
                     RollMean(NextBarSame, Len(NextBarSame), up.period).val)
              /\ dn.deduction_price > 0 /\ dn.diff_pct < 0
              /\ RLt(RollMean(NextBarSame, Len(NextBarSame), dn.period).val,
                     RollMean(ded_df, Len(ded_df), dn.period).val)

\* the periods of ALL_CONFIGS that pass both tests of the call
Qualifying ==
    {AllPeriods[i] : i \in {k \in DOMAIN AllPeriods :
                                /\ Len(ded_df) >= AllPeriods[k]
                                /\ display_limit >= AllPeriods[k]}}

\* C19: deduction period selection.  The call reports a record for a period
\* N of {5, 10, 20, 60} exactly when the series has at least N bars and
\* display_limit >= N, in ascending order of N; the other periods get no
\* record and no historical column; when no period qualifies, or the series
\* is empty, the summary is None.
PeriodSelection ==
    ded_pc = "done" =>
        /\ summary.ok <=> Qualifying # {}
        /\ Len(ded_df) = 0 => ~summary.ok
        /\ ~summary.ok => summary.rows = <<>>
        /\ {summary.rows[j].period : j \in DOMAIN summary.rows} = Qualifying
        /\ \A j, k \in DOMAIN summary.rows :
              j < k => summary.rows[j].period < summary.rows[k].period
        /\ DOMAIN ded_cols = Qualifying

\* C19 witness: on 12 bars with a display window of 30 the call reported
\* the records of 5 and 10 and nothing for 20 (too few bars) and 60.
PeriodSelectionWitness ==
    /\ ded_pc = "done"
    /\ Len(ded_df) = 12
    /\ display_limit = 30
    /\ summary.ok
    /\ Len(summary.rows) = 2
    /\ summary.rows[1].period = 5
    /\ summary.rows[2].period = 10

\* C8 (as claimed): for every period N of the summary, the record's
\* deduction price is the close at position (last - N), which is the last
\* row of the historical deduction_N column, and the record's bias
\* (diff_pct) is computed against that value.
DeductionPricePosition ==
    (ded_pc = "done" /\ summary.ok) =>
        \A j \in DOMAIN summary.rows :
            LET rec  == summary.rows[j]
                last == Len(ded_df)
                col  == ded_cols[rec.period].deduction
            IN  /\ col[last].ok
                /\ rec.deduction_price = Round2(col[last].val)
                /\ rec.diff_pct =
                     Round2(RMul(RDiv(RSub(R(ded_df[last]), col[last].val), col[last].val),
                                 R(100)))

(***************************************************************************)
(* Claims about the screener strategies (checked under SpecScr)            *)
(***************************************************************************)
ScrLen == Len(scr_df.rows)

\* C4: every strategy returns the no-match value (and raises nothing) when
\* the frame lacks one of its required columns or has fewer rows than its
\* minimum history: consolidation_days + 1, 21, 6 and 21 rows.
ScreenerGuards ==
    scr_pc = "done" =>
        /\ (~(ConsRequiredCols \subseteq scr_df.cols)
               \/ ScrLen < scr_par.consolidation_days + 1)
             => scr_res.breakout.kind = "none"
        /\ (~(MaRequiredCols \subseteq scr_df.cols) \/ ScrLen < 21)
             => scr_res.alignment.kind = "none"
        /\ (~(SurgeRequiredCols \subseteq scr_df.cols) \/ ScrLen < 6)
             => scr_res.surge.kind = "none"
        /\ (~(OversoldRequiredCols \subseteq scr_df.cols) \/ ScrLen < 21)
             => scr_res.oversold.kind = "none"

\* C4 witness: a frame of 22 rows without the open column was screened; the
\* alignment strategy, which does not require open, matched, and the
\* strategies that require it returned no match.
ScreenerGuardsWitness ==
    /\ scr_pc = "done"
    /\ scr_df.cols = AllCols \ {"open"}
    /\ ScrLen = 22
    /\ scr_res.alignment.kind = "match"
    /\ scr_res.breakout.kind = "none"
    /\ scr_res.surge.kind = "none"

\* C5: screener monotonicity.  After the strategies were called again on the
\* same frame with one threshold parameter tightened, no strategy that had
\* returned no match returns a match.
ScreenerMonotone ==
    scr_op \in DOMAIN Stricter =>
        \A st \in Strategies :
            scr_prev[st].kind # "match" => scr_res[st].kind # "match"

\* C5 witness: raising volume_ratio turned a consolidation-breakout match
\* into a no-match.
ScreenerMonotoneWitness ==
    /\ scr_op = "volume_ratio"
    /\ scr_prev.breakout.kind = "match"
    /\ scr_res.breakout.kind = "none"

\* the rows of the box: the first N-1 of the trailing N rows
BoxRows == {t \in 1..ScrLen : ScrLen - scr_par.consolidation_days + 1 <= t /\ t <= ScrLen - 1}

BoxHigh == CHOOSE h \in {scr_df.rows[t].high : t \in BoxRows} :
               \A t \in BoxRows : scr_df.rows[t].high <= h

BoxLow == CHOOSE l \in {scr_df.rows[t].low : t \in BoxRows} :
              \A t \in BoxRows : l <= scr_df.rows[t].low

\* the last 5 rows of the box (all of them when the box has fewer)
BoxTail == {t \in BoxRows : t >= ScrLen - 5}

RECURSIVE VolumeSum(_)
VolumeSum(S) ==
    IF S = {} THEN 0
    ELSE LET t == CHOOSE x \in S : TRUE IN scr_df.rows[t].volume + VolumeSum(S \ {t})

\* the four conditions of the claim, on integers:
\*   (box_high - box_low) / box_low < amplitude_threshold
\*   today's close > box_high, yesterday's close <= box_high
\*   check_volume => today's volume >= mean(volume of BoxTail) * volume_ratio
BreakoutConditions ==
    LET thr == scr_par.amplitude_threshold
        vr  == scr_par.volume_ratio
    IN  /\ (BoxHigh - BoxLow) * thr[2] < thr[1] * BoxLow
        /\ scr_df.rows[ScrLen].close > BoxHigh
        /\ scr_df.rows[ScrLen - 1].close <= BoxHigh
        /\ scr_par.check_volume =>
              scr_df.rows[ScrLen].volume * Cardinality(BoxTail) * vr[2]
                >= VolumeSum(BoxTail) * vr[1]

SurgeConditions ==
    LET today == scr_df.rows[ScrLen]
        past5 == {t \in 1..ScrLen : ScrLen - 5 <= t /\ t <= ScrLen - 1}
        vr    == scr_par.surge_volume_ratio
        bp    == scr_par.body_pct
    IN  /\ VolumeSum(past5) > 0
        /\ today.volume * 5 * vr[2] >= VolumeSum(past5) * vr[1]
        /\ today.open > 0
        /\ (today.close - today.open) * bp[2] > bp[1] * today.open
        /\ \A t \in 1..ScrLen : t >= ScrLen - 4 => today.close >= scr_df.rows[t].close

RECURSIVE SumOver(_, _, _)
\* the sum of f[x].field over the names x of S
SumOver(f, field, S) ==
    IF S = {} THEN 0
    ELSE LET x == CHOOSE y \in S : TRUE
         IN  f[x][field] + SumOver(f, field, S \ {x})

DimNames(res) == DOMAIN res.dimensions

\* C2: whenever a scoring model (general, Mode A, Mode B) returns a Score
\* Result, total is the sum of the dimension scores, every dimension score
\* lies between 0 and the dimension's max, the maxima add up to exactly
\* 100, and so total lies between 0 and 100.
ScoreInvariants ==
    (sc_pc = "done" /\ sc_res.kind = "score") =>
        /\ sc_res.total = SumOver(sc_res.dimensions, "score", DimNames(sc_res))
        /\ \A x \in DimNames(sc_res) :
              /\ 0 <= sc_res.dimensions[x].score
              /\ sc_res.dimensions[x].score <= sc_res.dimensions[x].max
        /\ SumOver(sc_res.dimensions, "max", DimNames(sc_res)) = 100
        /\ 0 <= sc_res.total
        /\ sc_res.total <= 100

\* a model returned a Score Result in which one dimension is at its
\* maximum and another is below it
ScoreInvariantsWitness ==
    /\ sc_pc = "done"
    /\ sc_model = "general"
    /\ sc_res.kind = "score"
    /\ sc_res.dimensions.momentum.score = 30
    /\ sc_res.dimensions.trend.score = 30
    /\ sc_res.dimensions.volume.score = 0
    /\ sc_res.total = 80

\* C3: each scoring model returns None for every series of fewer than 65
\* bars, the empty series included, and returns a Score Result for every
\* series of 65 bars or more: the length is the only thing that makes a
\* model return no score.
ScoreGate ==
    sc_pc = "done" =>
        /\ (Len(sc_df.close) < 65) => sc_res.kind = "none"
        /\ (Len(sc_df.close) >= 65) => sc_res.kind = "score"

\* Mode B returned a Score Result for a series of exactly 65 bars
ScoreGateWitness ==
    /\ sc_pc = "done"
    /\ sc_model = "B"
    /\ Len(sc_df.close) = 65
    /\ sc_res.kind = "score"


\* the readings the criterion of a details row needs are not all there:
\* RSI, stochastic K/D, MACD, a moving average, or volume and a positive
\* 5-day average volume
Unavailable(item) ==
    CASE item = "RSI"          -> ~sc_ta.rsi.ok
      [] item = "KD"           -> ~(sc_ta.stoch.k.ok /\ sc_ta.stoch.d.ok)
      [] item = "MACD hist"    -> ~sc_ta.macd.hist.ok
      [] item = "MACD DIF/DEA" -> ~(sc_ta.macd.dif.ok /\ sc_ta.macd.dea.ok)
      [] item = "10MA"         -> ~LastMa(sc_df, 10).ok
      [] item = "20MA"         -> ~LastMa(sc_df, 20).ok
      [] item = "60MA"         -> ~LastMa(sc_df, 60).ok
      [] item = "bias"         -> ~LastMa(sc_df, 60).ok
      [] item = "60/240MA"     -> ~(LastMa(sc_df, 60).ok /\ LastMa240(sc_df).ok)
      [] item = "volume"       -> ~VolumeRated(LastVolume(sc_df), Vol5Avg(sc_df))
      [] OTHER                 -> FALSE

\* C11: in every scoring model on a series of at least 65 bars, a criterion
\* whose indicator value is unavailable (RSI, MACD, stochastic K/D, a moving
\* average, volume or the 5-day average volume missing, or a zero average)
\* awards 0 points and is labelled as insufficient data, and the model
\* still returns a Score Result.
SubIndicatorDegradation ==
    (sc_pc = "done" /\ Len(sc_df.close) >= 65) =>
        /\ sc_res.kind = "score"
        /\ \A j \in 1..Len(sc_res.details) :
              Unavailable(sc_res.details[j].item) =>
                  /\ sc_res.details[j].pts = 0
                  /\ sc_res.details[j].st = "insufficient"


(***************************************************************************)
(* Claims about the caller's frame (checked under SpecFrame)               *)
(***************************************************************************)
\* C15: compute_ma, compute_kd, calculate_deduction_values, the four
\* screener predicates and the scoring models leave the frame passed in
\* with exactly the rows, columns and index it had before the call (derived
\* columns go to a working copy), and a second call on the same frame
\* returns the same value as the first.
CallerFrameUntouched ==
    /\ fr_pc \in {"once", "twice"} =>
          /\ fr_heap[CallerRef] = fr_before
          /\ ColumnsOf(fr_heap[CallerRef]) = fr_before.cols
    /\ fr_pc = "twice" => fr_out[1] = fr_out[2]

\* C15 witness: check_bullish_ma_alignment was called twice on a frame long
\* enough for it to add its ma5 / ma10 / ma20 columns to its working frame.
CallerFrameUntouchedWitness ==
    /\ fr_pc = "twice"
    /\ fr_fn.name = "check_bullish_ma_alignment"
    /\ Len(fr_before.rows) = 22
    /\ "volume" \in fr_before.cols
    /\ Len(fr_out) = 2


\* C16: for every series, window length N and bar index i >= N-1 the maN
\* reading compute_ma produces at i is the arithmetic mean of the N closes
\* at i-N+1..i (so at the last bar when the series has at least N bars),
\* and the reading is undefined at every index i < N-1.  (Rows are counted
\* from 1 here: row t is index t-1.)
SmaCorrect ==
    (fr_pc \in {"once", "twice"} /\ fr_fn.name = "compute_ma") =>
        \A j \in 1..Len(fr_fn.arg) :
            LET N     == fr_fn.arg[j]
                close == CloseOf(fr_before)
                maN   == fr_out[1].derived[<<"ma", N>>]
            IN  /\ Len(maN) = Len(close)
                /\ \A t \in 1..Len(close) :
                      IF t < N THEN ~maN[t].ok
                      ELSE /\ maN[t].ok
                           /\ maN[t].val[1] * N
                                = maN[t].val[2] * SeqSum(close, t - N + 1, t)

\* C16 witness: compute_ma(df, [5, 10, 20]) returned for a 22-bar series
\* whose last closes fall: ma20 is defined on the last bar, not on bar 19.
SmaCorrectWitness ==
    /\ fr_pc = "once"
    /\ fr_fn.name = "compute_ma"
    /\ fr_fn.arg = <<5, 10, 20>>
    /\ Len(fr_before.rows) = 22
    /\ fr_before.rows[22].close < fr_before.rows[1].close
    /\ fr_out[1].derived[<<"ma", 20>>][22].ok
    /\ ~fr_out[1].derived[<<"ma", 20>>][19].ok


(***************************************************************************)
(* The scoring tables, restated on the bars and readings of the call       *)
(***************************************************************************)
ScoredBars == Len(sc_df.close)

ScoredClose == sc_df.close[ScoredBars]

\* the sum of the last p closes (p <= ScoredBars)
WindowSum(p) == SeqSum(sc_df.close, ScoredBars - p + 1, ScoredBars)

\* close > MA(p) and close < MA(p), without the division
CloseAboveMa(p) == p * ScoredClose > WindowSum(p)

CloseBelowMa(p) == p * ScoredClose < WindowSum(p)

\* the close about to roll off the p-bar window is greater than the close
UnderPressure(p) == sc_df.close[ScoredBars - p + 1] > ScoredClose

\* a reading is available and at least / greater than / less than v
AtLeast(x, v) == x.ok /\ x.val[1] >= v * x.val[2]

Over(x, v) == x.ok /\ x.val[1] > v * x.val[2]

Under(x, v) == x.ok /\ x.val[1] < v * x.val[2]

\* the volumes of the five bars before today, added up
FiveBarVolume == SeqSum(sc_df.volume, ScoredBars - 5, ScoredBars - 1)

\* today's volume is at least num/den times the average of the five bars
\* before today, which is positive
VolumeRatioAtLeast(num, den) ==
    /\ sc_df.has_volume
    /\ FiveBarVolume > 0
    /\ 5 * den * sc_df.volume[ScoredBars] >= num * FiveBarVolume

Pts(cond, n) == IF cond THEN n ELSE 0

\* C22: the Mode A scoring table.  On a series of 65 bars or more, Trend is
\* 10 for each of close > MA10, MA20, MA60 plus 10 / 5 / 0 when 0 / 1 / 2 or
\* more of the periods 10, 20, 60 are under deduction pressure; Momentum is
\* 15 for 50 <= RSI <= 70, 10 for RSI > 70, 5 for 40 <= RSI < 50, else 0,
\* plus 15 when the MACD histogram is > 0; Volume is 30 when volume / 5-day
\* average >= 1.5, 20 when >= 1.0 (equality included), else 0.
ModeATable ==
    (sc_pc = "done" /\ sc_model = "A" /\ ScoredBars >= 65) =>
        LET pressed == Cardinality({p \in {10, 20, 60} : UnderPressure(p)})
            rsi     == sc_ta.rsi
        IN  /\ sc_res.kind = "score"
            /\ sc_res.dimensions.trend.score =
                  Pts(CloseAboveMa(10), 10) + Pts(CloseAboveMa(20), 10)
                  + Pts(CloseAboveMa(60), 10)
                  + (IF pressed = 0 THEN 10 ELSE IF pressed = 1 THEN 5 ELSE 0)
            /\ sc_res.dimensions.momentum.score =
                  (IF AtLeast(rsi, 50) /\ ~Over(rsi, 70) THEN 15
                   ELSE IF Over(rsi, 70) THEN 10
                   ELSE IF AtLeast(rsi, 40) /\ Under(rsi, 50) THEN 5
                   ELSE 0)
                  + Pts(Over(sc_ta.macd.hist, 0), 15)
            /\ sc_res.dimensions.volume.score =
                  (IF VolumeRatioAtLeast(3, 2) THEN 30
                   ELSE IF VolumeRatioAtLeast(1, 1) THEN 20
                   ELSE 0)

\* C22 witness: Mode A scored a series whose volume equals its five-bar
\* average (20 points), with exactly one period under deduction pressure
\* (5 points), RSI exactly 70 (15 points) and a positive histogram.
ModeATableWitness ==
    /\ sc_pc = "done"
    /\ sc_model = "A"
    /\ sc_res.kind = "score"
    /\ sc_df.has_volume
    /\ 5 * sc_df.volume[ScoredBars] = FiveBarVolume
    /\ Cardinality({p \in {10, 20, 60} : UnderPressure(p)}) = 1
    /\ sc_ta.rsi = Some(R(70))
    /\ Over(sc_ta.macd.hist, 0)
    /\ sc_res.dimensions.volume.score = 20
    /\ sc_res.dimensions.momentum.score = 30

\* C23: the Mode B scoring table.  On a series of 65 bars or more, Price
\* Level is 40 if close < MA60, else 20 if the series has 240 bars or more
\* and close < MA240, else 10; Oversold is 20 if RSI14 < 30 plus 20 if
\* (close - MA60) / MA60 < -10%; with K and D both read, LT Baseline is 20 if
\* K < 20, D < 20 and K > D, 10 if K < 20 and D < 20 without K > D, 5 if
\* otherwise K < 30 or D < 30, else 0.  MA240 plays no part when fewer than
\* 240 bars are supplied.
ModeBTable ==
    (sc_pc = "done" /\ sc_model = "B" /\ ScoredBars >= 65) =>
        LET k == sc_ta.stoch.k
            d == sc_ta.stoch.d
        IN  /\ sc_res.kind = "score"
            /\ sc_res.dimensions.price_level.score =
                  (IF CloseBelowMa(60) THEN 40
                   ELSE IF ScoredBars >= 240 /\ CloseBelowMa(240) THEN 20
                   ELSE 10)
            /\ ScoredBars < 240 => sc_res.dimensions.price_level.score \in {10, 40}
            /\ sc_res.dimensions.oversold.score =
                  Pts(Under(sc_ta.rsi, 30), 20)
                  + Pts(10 * 60 * ScoredClose < 9 * WindowSum(60), 20)
            /\ (k.ok /\ d.ok) =>
                  sc_res.dimensions.lt_baseline.score =
                      (IF Under(k, 20) /\ Under(d, 20) /\ RLt(d.val, k.val) THEN 20
                       ELSE IF Under(k, 20) /\ Under(d, 20) THEN 10
                       ELSE IF Under(k, 30) \/ Under(d, 30) THEN 5
                       ELSE 0)

\* C23 witness: Mode B scored a series of 240 bars or more whose close is
\* at or above MA60 and below MA240 (20 points), with RSI below 30 and K, D
\* both below 20 with K > D.
ModeBTableWitness ==
    /\ sc_pc = "done"
    /\ sc_model = "B"
    /\ sc_res.kind = "score"
    /\ ScoredBars >= 240
    /\ ~CloseBelowMa(60)
    /\ CloseBelowMa(240)
    /\ sc_res.dimensions.price_level.score = 20
    /\ sc_res.dimensions.oversold.score = 20
    /\ sc_res.dimensions.lt_baseline.score = 20

\* C24: the general model's scoring table.  On a series of 65 bars or more,
\* Trend is 10 for each of close > MA10, MA20, MA60; an RSI that is read
\* scores 15 for 40 <= RSI <= 70 or RSI < 30, 0 for RSI > 80 and 5 for every
\* other value (so RSI exactly 80 scores 5); K > D scores 15; MACD histogram
\* > 0 and MACD line > signal line score 10 each; Volume is 20 only if
\* today's volume is strictly greater than the 5-day average.
GeneralTable ==
    (sc_pc = "done" /\ sc_model = "general" /\ ScoredBars >= 65) =>
        LET rsi  == sc_ta.rsi
            k    == sc_ta.stoch.k
            d    == sc_ta.stoch.d
            macd == sc_ta.macd
        IN  /\ sc_res.kind = "score"
            /\ sc_res.dimensions.trend.score =
                  Pts(CloseAboveMa(10), 10) + Pts(CloseAboveMa(20), 10)
                  + Pts(CloseAboveMa(60), 10)
            /\ sc_res.dimensions.momentum.score =
                  (IF ~rsi.ok THEN 0
                   ELSE IF (AtLeast(rsi, 40) /\ ~Over(rsi, 70)) \/ Under(rsi, 30) THEN 15
                   ELSE IF Over(rsi, 80) THEN 0
                   ELSE 5)
                  + Pts(k.ok /\ d.ok /\ RLt(d.val, k.val), 15)
            /\ sc_res.dimensions.oscillator.score =
                  Pts(Over(macd.hist, 0), 10)
                  + Pts(macd.dif.ok /\ macd.dea.ok /\ RLt(macd.dea.val, macd.dif.val), 10)
            /\ sc_res.dimensions.volume.score =
                  Pts(/\ sc_df.has_volume
                      /\ FiveBarVolume > 0
                      /\ 5 * sc_df.volume[ScoredBars] > FiveBarVolume, 20)

\* C24 witness: the general model scored a series whose volume equals its
\* five-bar average (0 points) with RSI exactly 80 (5 points) and K > D.
GeneralTableWitness ==
    /\ sc_pc = "done"
    /\ sc_model = "general"
    /\ sc_res.kind = "score"
    /\ sc_df.has_volume
    /\ FiveBarVolume > 0
    /\ 5 * sc_df.volume[ScoredBars] = FiveBarVolume
    /\ sc_ta.rsi = Some(R(80))
    /\ sc_ta.stoch.k.ok /\ sc_ta.stoch.d.ok
    /\ RLt(sc_ta.stoch.d.val, sc_ta.stoch.k.val)
    /\ sc_res.dimensions.volume.score = 0
    /\ sc_res.dimensions.momentum.score = 20

(***************************************************************************)
(* Claims about successive calls of consolidation breakout (SpecScr)       *)
(***************************************************************************)
\* every bar of the frame has low <= close <= high
ValidBars == \A t \in 1..ScrLen : /\ scr_df.rows[t].low <= scr_df.rows[t].close
                                  /\ scr_df.rows[t].close <= scr_df.rows[t].high

\* C26: first breakout bar only.  With the parameters fixed, consolidation
\* breakout does not match on two consecutive bars of one series: after a
\* match on the series ending at bar t, the call on the series extended by
\* bar t+1 returns no match.
FirstBreakoutOnly ==
    (scr_op = "next_bar" /\ scr_prev.breakout.kind = "match")
        => scr_res.breakout.kind # "match"

\* the conditions of a match with condition (b) left out, on integers
ConditionsWithoutB ==
    LET thr == scr_par.amplitude_threshold
        vr  == scr_par.volume_ratio
    IN  /\ (BoxHigh - BoxLow) * thr[2] < thr[1] * BoxLow
        /\ scr_df.rows[ScrLen].close > BoxHigh
        /\ scr_par.check_volume =>
              scr_df.rows[ScrLen].volume * Cardinality(BoxTail) * vr[2]
                >= VolumeSum(BoxTail) * vr[1]

\* C27: condition (b) follows from bar validity.  On a frame with every
\* column and enough rows whose bars all have close <= high, yesterday's
\* close is <= box_high, and consolidation breakout returns a match exactly
\* when the other conditions hold: the strategy without condition (b)
\* returns the same result.
ConditionBRedundant ==
    (scr_pc = "done" /\ scr_df.cols = AllCols
        /\ ScrLen >= scr_par.consolidation_days + 1
        /\ \A t \in 1..ScrLen : scr_df.rows[t].close <= scr_df.rows[t].high) =>
        /\ scr_df.rows[ScrLen - 1].close <= BoxHigh
        /\ scr_res.breakout.kind = "match" <=> ConditionsWithoutB

\* C27 witness: a match was returned on a frame of valid bars in which
\* yesterday closed at its high, and that high is box_high.
ConditionBRedundantWitness ==
    /\ scr_pc = "done"
    /\ scr_df.cols = AllCols
    /\ ScrLen >= scr_par.consolidation_days + 1
    /\ \A t \in 1..ScrLen : scr_df.rows[t].close <= scr_df.rows[t].high
    /\ scr_df.rows[ScrLen - 1].close = BoxHigh
    /\ scr_res.breakout.kind = "match"

\* C28: lengthening the consolidation window is monotone.  With the volume
\* check enabled and every other parameter fixed, after consolidation
\* breakout returned no match with consolidation_days = N (N >= 2), the call
\* on the same series with a larger consolidation_days returns no match,
\* also when N - 1 < 5.
LongerWindowMonotone ==
    (scr_op = "lengthened" /\ scr_par.check_volume
        /\ scr_prev.breakout.kind # "match")
        => scr_res.breakout.kind # "match"

(***************************************************************************)
(* The coupling of the Mode B criteria (checked under SpecScore)           *)
(***************************************************************************)
\* C29: the Mode B criteria are coupled.  In every Score Result of Mode B,
\* when the 60MA-bias row has its 20 points the Price Level dimension is 40;
\* when close and MA60 are available (the 60/240MA row is rated) Price
\* Level is at least 10, and so is the total.
ModeBCoupling ==
    (sc_pc = "done" /\ sc_model = "B" /\ sc_res.kind = "score") =>
        /\ sc_res.details[3].item = "bias"
        /\ sc_res.details[3].pts = 20 => sc_res.dimensions.price_level.score = 40
        /\ (ScoredBars >= 60 /\ sc_res.details[1].st = "rated") =>
              /\ sc_res.dimensions.price_level.score >= 10
              /\ sc_res.total >= 10

\* C29 witness: Mode B scored a series, of 240 bars or more, that closes
\* more than 10% below MA60 and below MA240: the bias row has 20 points
\* and Price Level 40.
ModeBCouplingWitness ==
    /\ sc_pc = "done"
    /\ sc_model = "B"
    /\ sc_res.kind = "score"
    /\ ScoredBars >= 240
    /\ 10 * 60 * ScoredClose < 9 * WindowSum(60)
    /\ CloseBelowMa(240)
    /\ sc_res.details[3].pts = 20
    /\ sc_res.dimensions.price_level.score = 40

(***************************************************************************)
(* Claims about fetch_stock_candles (checked under SpecFetch)              *)
(***************************************************************************)
\* the number of days of request i, both ends included
Span(i) == requests[i][2] - requests[i][1] + 1

\* the requests made so far: each within [dt_from, dt_to] and of at most
\* 360 days, the first ending at dt_to, each next one ending the day before
\* the one before it starts; after a return, the last starts at dt_from;
\* with dt_from > dt_to no request and an empty frame
ChunkDiscipline ==
    /\ \A i \in DOMAIN requests :
          /\ 1 <= Span(i)
          /\ Span(i) <= FUGLE_MAX_RANGE_DAYS
          /\ dt_from <= requests[i][1]
          /\ requests[i][2] <= dt_to
          /\ i = 1 => requests[i][2] = dt_to
          /\ i > 1 => requests[i][2] = requests[i - 1][1] - 1
    /\ Len(requests) * FUGLE_MAX_RANGE_DAYS < (dt_to - dt_from + 1) + FUGLE_MAX_RANGE_DAYS
          \/ requests = <<>>
    /\ (fc_pc = "done" /\ dt_from <= dt_to) =>
          /\ requests # <<>>
          /\ requests[Len(requests)][1] = dt_from
    /\ (fc_pc \in {"loop", "after", "done"} /\ dt_from > dt_to) => requests = <<>>
    /\ (fc_pc = "done" /\ dt_from > dt_to) => fc_out = [kind |-> "frame", dates |-> <<>>]

\* C30: fetch chunking.  For date_from <= date_to the chunk loop ends after
\* finitely many provider calls, and the requested ranges are disjoint,
\* contiguous, issued from newest to oldest, cover exactly
\* [date_from, date_to] and span at most 360 calendar days each; for
\* date_from > date_to no call is made and an empty result is returned.
FetchChunking == []ChunkDiscipline /\ <>(fc_pc \in {"done", "raised"})

\* C30 witness: a range of 721 days was fetched with three requests, of
\* 360, 360 and 1 days, and the function returned.
FetchChunkingWitness ==
    /\ fc_pc = "done"
    /\ dt_to - dt_from + 1 = 2 * FUGLE_MAX_RANGE_DAYS + 1
    /\ Len(requests) = 3
    /\ requests[1] = <<dt_to - (FUGLE_MAX_RANGE_DAYS - 1), dt_to>>
    /\ requests[3] = <<dt_from, dt_from>>
    /\ Span(2) = FUGLE_MAX_RANGE_DAYS
    /\ fc_out.kind = "frame"
    /\ Len(fc_out.dates) = fc_args.limit

=============================================================================
